---- MODULE Spec2Model ----
(***************************************************************************)
(* A model of the CrewAI extraction pipeline of src/src/crewai/extractor.py *)
(* (Layer 1: knowledge graph -> intermediate representation).               *)
(*                                                                         *)
(* Strings are sequences of atoms.  An atom is a character where the code  *)
(* works on characters (_safe_var, str.title) and a lexeme (a word, a      *)
(* separator, a brace) where the code works with regular expressions over  *)
(* words.  The empty string is << >>.                                      *)
(***************************************************************************)
EXTENDS Integers, Sequences, FiniteSets, TLC

VARIABLES
    pc,                   \* the position in the pipeline (or in a function call)
    doc,                  \* the document: the triples of the graph and the raw text
    rows,                 \* the rows of the running query not yet iterated over
    bools,                \* _deleg_bools / _verbose_bools of _extract_agents
    language_models,      \* lm_map
    tools,                \* tools_map
    agents,               \* agents_map, in insertion order
    tasks,                \* tasks_map, in insertion order
    resource_to_producer, \* of _resolve_task_context
    workflow_steps,       \* the step list
    task_list,            \* the task order handed to rendering
    input_variables,      \* all_vars, in insertion order
    arg,                  \* the argument of a function applied on its own
    ret,                  \* its return value
    team,                 \* crew_name, description, process and detected of _extract_team
    env_vars,             \* the list _extract_env_vars builds
    loader,               \* the file, the Graph object and the position of a loading function
    batch,                \* the directory walk, the names and the counter of runner.py
    order,                \* the order in which the queries return their rows
    previous              \* the project an earlier call of extract_crew_project returned

pipeline == <<doc, rows, bools, language_models, tools, agents, tasks, resource_to_producer,
              workflow_steps, task_list, input_variables>>

pipeline_but_rows == <<doc, bools, language_models, tools, agents, tasks, resource_to_producer,
                       workflow_steps, task_list, input_variables>>

extra == <<team, env_vars, loader, batch, order, previous>>

vars == <<pc, pipeline, arg, ret, extra>>

(***************************************************************************)
(* Bounds of the model.                                                    *)
(***************************************************************************)
MaxLen == 4

MaxChainAgents == 3

MaxLinks == 2

MaxFlow == 4

MaxTokens == 5

MaxPairs == 2

(***************************************************************************)
(* Characters.                                                             *)
(***************************************************************************)
UpperSeq == <<"A","B","C","D","E","F","G","H","I","J","K","L","M","N","O","P","Q","R","S","T","U","V","W","X","Y","Z">>

LowerSeq == <<"a","b","c","d","e","f","g","h","i","j","k","l","m","n","o","p","q","r","s","t","u","v","w","x","y","z">>

Upper == {UpperSeq[i] : i \in 1..Len(UpperSeq)}

Lower == {LowerSeq[i] : i \in 1..Len(LowerSeq)}

Digit == {"0","1","2","3","4","5","6","7","8","9"}

AlNum == Upper \cup Lower \cup Digit

ToLower(c) == IF c \in Upper THEN LowerSeq[CHOOSE i \in 1..Len(UpperSeq) : UpperSeq[i] = c] ELSE c

ToUpper(c) == IF c \in Lower THEN UpperSeq[CHOOSE i \in 1..Len(LowerSeq) : LowerSeq[i] = c] ELSE c

LowerStr(s) == [i \in 1..Len(s) |-> ToLower(s[i])]

(***************************************************************************)
(* Generic string helpers.                                                 *)
(***************************************************************************)
\* the sequences over S of length at most n
SeqsUpTo(S, n) == UNION {[1..k -> S] : k \in 0..n}

\* s without its first n atoms
Drop(s, n) == SubSeq(s, n + 1, Len(s))

\* the last position of atom c in s, 0 when absent
LastIndexOf(s, c) == IF \E i \in 1..Len(s) : s[i] = c THEN CHOOSE i \in 1..Len(s) : s[i] = c /\ \A j \in (i+1)..Len(s) : s[j] # c ELSE 0

\* str.split(c)[-1]
AfterLast(s, c) == Drop(s, LastIndexOf(s, c))

\* str.strip(chars): drop the leading and the trailing atoms that are in cs
RECURSIVE LStrip(_, _)
LStrip(s, cs) == IF s # << >> /\ Head(s) \in cs THEN LStrip(Tail(s), cs) ELSE s

RECURSIVE RStrip(_, _)
RStrip(s, cs) == IF s # << >> /\ s[Len(s)] \in cs THEN RStrip(SubSeq(s, 1, Len(s) - 1), cs) ELSE s

StripChars(s, cs) == RStrip(LStrip(s, cs), cs)

(***************************************************************************)
(* The string literals of the code.                                        *)
(***************************************************************************)
STR_role == <<"r","o","l","e">>

STR_goal == <<"g","o","a","l">>

STR_backstory == <<"b","a","c","k","s","t","o","r","y">>

STR_allow_delegation == <<"a","l","l","o","w","_","d","e","l","e","g","a","t","i","o","n">>

STR_verbose == <<"v","e","r","b","o","s","e">>

(***************************************************************************)
(* _safe_var: IRI or label -> snake_case identifier.                        *)
(***************************************************************************)
UNNAMED == <<"u","n","n","a","m","e","d">>

\* re.sub(r"(?<=[a-z0-9])([A-Z])", r"_\1", name)
RECURSIVE SplitLowerUpper(_, _)
SplitLowerUpper(s, i) ==
    IF i > Len(s) THEN << >>
    ELSE (IF i > 1 /\ s[i-1] \in (Lower \cup Digit) /\ s[i] \in Upper THEN <<"_", s[i]>> ELSE <<s[i]>>)
         \o SplitLowerUpper(s, i + 1)

\* re.sub(r"(?<=[A-Z])([A-Z][a-z])", r"_\1", name): a match consumes two characters
RECURSIVE SplitUpperRun(_, _)
SplitUpperRun(s, i) ==
    IF i > Len(s) THEN << >>
    ELSE IF i > 1 /\ i < Len(s) /\ s[i-1] \in Upper /\ s[i] \in Upper /\ s[i+1] \in Lower
         THEN <<"_", s[i], s[i+1]>> \o SplitUpperRun(s, i + 2)
         ELSE <<s[i]>> \o SplitUpperRun(s, i + 1)

\* re.sub(r"[^a-zA-Z0-9_]", "_", name)
ReplaceNonWord(s) == [i \in 1..Len(s) |-> IF s[i] \in AlNum \cup {"_"} THEN s[i] ELSE "_"]

\* re.sub(r"_+", "_", name)
RECURSIVE CollapseUnderscores(_)
CollapseUnderscores(s) ==
    IF Len(s) < 2 THEN s
    ELSE IF s[1] = "_" /\ s[2] = "_" THEN CollapseUnderscores(Tail(s))
         ELSE <<s[1]>> \o CollapseUnderscores(Tail(s))

SafeVarNoUpperRun(iri) ==
    IF iri = << >> THEN UNNAMED
    ELSE LET frag == AfterLast(AfterLast(iri, "/"), "#")
             s1   == SplitLowerUpper(frag, 1)
             s3   == ReplaceNonWord(s1)
             name == LowerStr(StripChars(CollapseUnderscores(s3), {"_"}))
         IN  IF name = << >> THEN UNNAMED
             ELSE IF name[1] \in Digit THEN <<"_">> \o name ELSE name

SafeVar(iri) ==
    IF iri = << >> THEN UNNAMED
    ELSE LET frag == AfterLast(AfterLast(iri, "/"), "#")
             s1   == SplitLowerUpper(frag, 1)
             s2   == SplitUpperRun(s1, 1)
             s3   == ReplaceNonWord(s2)
             name == LowerStr(StripChars(CollapseUnderscores(s3), {"_"}))
         IN  IF name = << >> THEN UNNAMED
             ELSE IF name[1] \in Digit THEN <<"_">> \o name ELSE name

(***************************************************************************)
(* _parse_config_kv_from_ttl.  The raw Turtle text is a sequence of the     *)
(* lexemes the two regular expressions look at:                            *)
(*   [t |-> "decl", s |-> n]   ":n a :Config"                              *)
(*   [t |-> "key",  s |-> k]   ":configKey "k" ;"                          *)
(*   [t |-> "val",  s |-> v]   ":configValue "v""                          *)
(* A position in the text is an index of the sequence.  kv_pattern matches *)
(* a key lexeme that a value lexeme follows at once.                       *)
(***************************************************************************)
\* config_decl_pattern.finditer: the (pos, local_name) list, in text order
RECURSIVE ConfigPositions(_, _)
ConfigPositions(raw, i) ==
    IF i > Len(raw) THEN << >>
    ELSE (IF raw[i].t = "decl" THEN << <<i, raw[i].s>> >> ELSE << >>) \o ConfigPositions(raw, i + 1)

\* kv_pattern matches at position i
KvMatchAt(raw, i) == i < Len(raw) /\ raw[i].t = "key" /\ raw[i+1].t = "val"

NoOwner == <<"<None>">>

\* a plausible slip: the scan runs forwards and stops at the first declaration
RECURSIVE OwnerOfFirst(_, _, _)
OwnerOfFirst(cps, j, kv_pos) ==
    IF j = 0 THEN NoOwner
    ELSE LET k == Len(cps) + 1 - j
         IN  IF cps[k][1] <= kv_pos THEN cps[k][2] ELSE OwnerOfFirst(cps, j - 1, kv_pos)

\* for cfg_pos, cfg_local in reversed(config_positions): if cfg_pos <= kv_pos: owner
RECURSIVE OwnerOf(_, _, _)
OwnerOf(cps, j, kv_pos) ==
    IF j = 0 THEN NoOwner
    ELSE IF cps[j][1] <= kv_pos THEN cps[j][2] ELSE OwnerOf(cps, j - 1, kv_pos)

\* result.setdefault(owner, []).append((key, value))
AppendPair(result, owner, pair) ==
    IF owner \in DOMAIN result
    THEN [result EXCEPT ![owner] = Append(@, pair)]
    ELSE [n \in DOMAIN result \cup {owner} |-> IF n = owner THEN <<pair>> ELSE result[n]]

EmptyDict == [n \in {} |-> << >>]

\* the loop over kv_pattern.finditer(raw_ttl), from position i on
RECURSIVE ScanPairs(_, _, _, _)
ScanPairs(raw, cps, i, result) ==
    IF i > Len(raw) THEN result
    ELSE IF KvMatchAt(raw, i)
         THEN LET owner == OwnerOf(cps, Len(cps), i)
              IN  ScanPairs(raw, cps, i + 2,
                            IF owner # NoOwner
                            THEN AppendPair(result, owner, <<raw[i].s, raw[i+1].s>>)
                            ELSE result)
         ELSE ScanPairs(raw, cps, i + 1, result)

ParseConfigKvFromTtl(raw) ==
    LET cps == ConfigPositions(raw, 1)
    IN  IF cps = << >> THEN EmptyDict ELSE ScanPairs(raw, cps, 1, EmptyDict)

(***************************************************************************)
(* The document.  doc holds the triples of the graph as relations (sets of *)
(* pairs <<subject, object>>) and the Config part of the raw text as       *)
(* lexemes.  IRIs and literals are strings.                                *)
(***************************************************************************)
EmptyDoc ==
    [kind |-> "graph",
     raw_ttl |-> << >>,               \* the Config declarations and pairs of the file, in text order
     llmAgents |-> {},                \* ?agent a :LLMAgent
     agentID |-> {}, agentRole |-> {}, label |-> {}, description |-> {}, comment |-> {},
     hasAgentGoal |-> {},             \* <<agent, the dcterms:description of a Goal it has>>
     hasAgentConfig |-> {},           \* <<agent or task, local name of the Config node>>
     agentPrompt |-> {}, taskPrompt |-> {}, hasPrompt |-> {},
     prompts |-> {},                  \* ?prompt a :Prompt
     promptInstruction |-> {}, promptContext |-> {}, promptOutputIndicator |-> {},
     promptInputData |-> {},
     toolNodes |-> {},                \* ?tool a :Tool
     agentToolUsage |-> {}, hasToolConfig |-> {},
     languageModels |-> {},           \* ?lm a :LanguageModel
     useLanguageModel |-> {},
     taskNodes |-> {},                \* ?task a :Task
     performedByAgent |-> {},
     producedResource |-> {}, requiresResource |-> {},
     steps |-> {},                    \* the rows [step, stepType, task, stepOrder] of the step nodes
     resourceNodes |-> {},            \* ?resource a beam:Resource, or a :Context
     teams |-> {},                    \* ?team a :Team
     hasSystemConfig |-> {},          \* <<team, local name of the Config node>>
     workflowPatterns |-> {},         \* ?wp a :WorkflowPattern
     title |-> {}]                    \* dcterms:title

\* the objects of subject x in a relation
Objects(rel, x) == {p[2] : p \in {q \in rel : q[1] = x}}

\* an OPTIONAL pattern: an unbound variable reads as "" through _s
Opt(vals) == IF vals = {} THEN {<< >>} ELSE vals

WhiteSpace == {" ", "\n"}

\* _s: str(val).strip()
StripStr(val) == StripChars(val, WhiteSpace)

\* The Turtle parser gives a key or a value to the subject of the block it
\* stands in: the nearest preceding declaration.
SubjectAt(raw, i) ==
    LET D == {d \in 1..i : raw[d].t = "decl"}
    IN  IF D = {} THEN NoOwner ELSE raw[CHOOSE d \in D : \A e \in D : e <= d].s

ConfigKeys(c) == {doc.raw_ttl[i].s : i \in {j \in 1..Len(doc.raw_ttl) : doc.raw_ttl[j].t = "key" /\ SubjectAt(doc.raw_ttl, j) = c}}

ConfigValues(c) == {doc.raw_ttl[i].s : i \in {j \in 1..Len(doc.raw_ttl) : doc.raw_ttl[j].t = "val" /\ SubjectAt(doc.raw_ttl, j) = c}}

\* ?cfg :configKey ?key ; :configValue ?value  -- every key with every value
ConfigRows(x, c) == {[subject |-> x, cfg |-> c, key |-> k, value |-> v] : k \in ConfigKeys(c), v \in ConfigValues(c)}

(***************************************************************************)
(* The queries of _extract_agents.                                         *)
(***************************************************************************)
AGENTS_QUERY ==
    UNION {{[agent |-> a, agentID |-> i, role |-> r, label |-> l] :
                i \in Opt(Objects(doc.agentID, a)), r \in Opt(Objects(doc.agentRole, a)),
                l \in Opt(Objects(doc.label, a))} : a \in doc.llmAgents}

AGENT_GOAL_FROM_GOAL_QUERY ==
    {[agent |-> p[1], goalDesc |-> p[2]] : p \in {q \in doc.hasAgentGoal : q[1] \in doc.llmAgents}}

AGENT_CONFIG_QUERY ==
    UNION {ConfigRows(p[1], p[2]) : p \in {q \in doc.hasAgentConfig : q[1] \in doc.llmAgents}}

AGENT_BACKSTORY_FROM_PROMPT_QUERY ==
    UNION {{[agent |-> p[1], prompt |-> p[2], instruction |-> i] : i \in Objects(doc.promptInstruction, p[2])} :
               p \in {q \in doc.agentPrompt : q[1] \in doc.llmAgents}}

AGENT_TOOLS_QUERY ==
    {[agent |-> p[1], tool |-> p[2]] :
         p \in {q \in doc.agentToolUsage :
                    q[1] \in doc.llmAgents /\ q[2] \in doc.toolNodes /\ q[2] \notin doc.llmAgents}}

AGENT_LLM_QUERY ==
    {[agent |-> p[1], lm |-> p[2]] : p \in {q \in doc.useLanguageModel : q[1] \in doc.llmAgents}}

\* the rows of the Config nodes that carry the key, each with every value of the node
ConfigKeyRows(key) == {r \in AGENT_CONFIG_QUERY : r.key = key}

AGENT_DELEGATION_QUERY == ConfigKeyRows(STR_allow_delegation)

AGENT_VERBOSE_QUERY == ConfigKeyRows(STR_verbose)

AGENT_CONFIG_LINK_QUERY ==
    {[agent |-> p[1], cfg |-> p[2]] : p \in {q \in doc.hasAgentConfig : q[1] \in doc.llmAgents}}

\* the OPTIONAL prompt block: one binding per prompt of the agent
PromptBindings(a) ==
    IF Objects(doc.agentPrompt, a) = {} THEN {[promptCtx |-> << >>, promptInstr |-> << >>]}
    ELSE UNION {{[promptCtx |-> c, promptInstr |-> i] :
                     c \in Opt(Objects(doc.promptContext, p)), i \in Opt(Objects(doc.promptInstruction, p))} :
                    p \in Objects(doc.agentPrompt, a)}

AGENT_TEXT_FIELDS_QUERY ==
    UNION {{[agent |-> a, desc |-> d, comment |-> c, promptCtx |-> b.promptCtx, promptInstr |-> b.promptInstr] :
                d \in Opt(Objects(doc.description, a)), c \in Opt(Objects(doc.comment, a)),
                b \in PromptBindings(a)} : a \in doc.llmAgents}

(***************************************************************************)
(* _parse_bool_from_text.                                                  *)
(***************************************************************************)
None == "None"

\* the first position from j on that holds no white space (Len + 1: none)
RECURSIVE SkipSpace(_, _)
SkipSpace(text, j) == IF j <= Len(text) /\ text[j] \in WhiteSpace THEN SkipSpace(text, j + 1) ELSE j

\* the end of the run of non-space characters that starts at j
RECURSIVE NonSpaceEnd(_, _)
NonSpaceEnd(text, j) == IF j < Len(text) /\ text[j+1] \notin WhiteSpace THEN NonSpaceEnd(text, j + 1) ELSE j

\* lit is at position i of text, whatever the case (re.IGNORECASE)
LiteralAt(text, i, lit) ==
    /\ i + Len(lit) - 1 <= Len(text)
    /\ LowerStr(SubSeq(text, i, i + Len(lit) - 1)) = LowerStr(lit)

\* lit \s*[:=]\s*(\S+) matched at position i: << group 1 >>, or << >> for no match
FlagMatchAt(text, i, lit) ==
    IF ~LiteralAt(text, i, lit) THEN << >>
    ELSE LET j == SkipSpace(text, i + Len(lit))
         IN  IF j > Len(text) \/ text[j] \notin {":", "="} THEN << >>
             ELSE LET k == SkipSpace(text, j + 1)
                  IN  IF k > Len(text) THEN << >> ELSE <<SubSeq(text, k, NonSpaceEnd(text, k))>>

\* "".join(w.capitalize() for w in key.split("_")); the match ignores case
CamelVariant(key) == SelectSeq(key, LAMBDA c : c # "_")

\* (?:key|camel)...: the match of the first alternative that matches at i
FlagAlternativesAt(text, i, key) ==
    IF FlagMatchAt(text, i, key) # << >> THEN FlagMatchAt(text, i, key)
    ELSE FlagMatchAt(text, i, CamelVariant(key))

\* re.search: the leftmost match
RECURSIVE FlagSearch(_, _, _)
FlagSearch(text, i, key) ==
    IF i > Len(text) THEN << >>
    ELSE IF FlagAlternativesAt(text, i, key) # << >> THEN FlagAlternativesAt(text, i, key)
         ELSE FlagSearch(text, i + 1, key)

FalseWords == {<<"f","a","l","s","e">>, <<"0">>, <<"n","o">>, <<"n","o","n","e">>}

TrueWords == {<<"t","r","u","e">>, <<"1">>, <<"y","e","s">>}

\* str.isdigit
IsDigitStr(s) == s # << >> /\ \A i \in 1..Len(s) : s[i] \in Digit

ParseBoolFromText(text, key) ==
    IF text = << >> THEN None
    ELSE LET m == FlagSearch(text, 1, key)
         IN  IF m = << >> THEN None
             ELSE LET val == LowerStr(StripChars(StripStr(m[1]), {"'", "\"", ",", ";", "."}))
                  IN  IF val \in FalseWords THEN "False"
                      ELSE IF val \in TrueWords \/ IsDigitStr(val) THEN "True"
                      ELSE None

(***************************************************************************)
(* _find_config_value_for_agent.  The function returns the value of the    *)
(* first pair with the key in the first linked Config node, in the order   *)
(* of AGENT_CONFIG_LINK_QUERY, that has such a pair.  That order is not    *)
(* fixed: FoundConfigValues is the set of the values it can return.        *)
(***************************************************************************)
NotFound == <<"<None>">>

FirstValueOf(pairs, key) ==
    IF \E i \in 1..Len(pairs) : pairs[i][1] = key
    THEN pairs[CHOOSE i \in 1..Len(pairs) : pairs[i][1] = key /\ \A j \in 1..(i-1) : pairs[j][1] # key][2]
    ELSE NotFound

FoundConfigValues(agent_iri, target_key, ttl_kv) ==
    LET linked == {r.cfg : r \in {q \in AGENT_CONFIG_LINK_QUERY : StripStr(q.agent) = agent_iri}}
        found  == {FirstValueOf(ttl_kv[c], target_key) : c \in linked \cap DOMAIN ttl_kv} \ {NotFound}
    IN  IF found = {} THEN {NotFound} ELSE found

(***************************************************************************)
(* _extract_agents.  agents is agents_map: the AgentModel records in       *)
(* insertion order.  allow_delegation and verbose are "None", "True" or    *)
(* "False"; llm is << >> (None) or << iri >>.                              *)
(***************************************************************************)
HasIri(map, iri) == \E i \in 1..Len(map) : map[i].iri = iri

IndexOfIri(map, iri) == CHOOSE i \in 1..Len(map) : map[i].iri = iri

\* re.match(r'^[a-z_][a-z0-9_]*$', var_name)
IsPlainIdentifier(s) ==
    /\ s # << >>
    /\ s[1] \in Lower \cup {"_"}
    /\ \A i \in 2..Len(s) : s[i] \in Lower \cup Digit \cup {"_"}

\* var_name = _safe_var(var_name) if not re.match(...) else var_name
VarNameOf(name) == IF IsPlainIdentifier(name) THEN name ELSE SafeVar(name)

\* a or b
Or(a, b) == IF a # << >> THEN a ELSE b

\* a plausible slip: a plain boolean with False as default
NewAgentDelegationFalse(row) ==
    LET iri      == StripStr(row.agent)
        agent_id == StripStr(row.agentID)
        label    == StripStr(row.label)
    IN  [iri |-> iri,
         var_name |-> VarNameOf(Or(agent_id, Or(label, SafeVar(iri)))),
         agent_id |-> agent_id,
         role |-> StripStr(row.role),
         goal |-> << >>,
         backstory |-> << >>,
         tool_var_names |-> << >>,
         llm |-> << >>,
         allow_delegation |-> "False",
         verbose |-> None]

NewAgent(row) ==
    LET iri      == StripStr(row.agent)
        agent_id == StripStr(row.agentID)
        label    == StripStr(row.label)
    IN  [iri |-> iri,
         var_name |-> VarNameOf(Or(agent_id, Or(label, SafeVar(iri)))),
         agent_id |-> agent_id,
         role |-> StripStr(row.role),
         goal |-> << >>,
         backstory |-> << >>,
         tool_var_names |-> << >>,
         llm |-> << >>,
         allow_delegation |-> None,
         verbose |-> None]

agentLocals == <<doc, language_models, tools, tasks, resource_to_producer, workflow_steps,
                 task_list, input_variables, arg, ret, extra>>

\* lines 651-673: the primary properties
ExtractAgentsPrimary ==
    /\ pc = "agents_primary"
    /\ IF rows = {}
       THEN /\ pc' = "agents_goal"
            /\ rows' = AGENT_GOAL_FROM_GOAL_QUERY
            /\ UNCHANGED agents
       ELSE \E row \in rows :
                /\ rows' = rows \ {row}
                /\ agents' = IF HasIri(agents, StripStr(row.agent)) THEN agents
                             ELSE Append(agents, NewAgent(row))
                /\ UNCHANGED pc
    /\ UNCHANGED <<bools, agentLocals>>

\* lines 675-679: goal from the Goal node
ExtractAgentsGoal ==
    /\ pc = "agents_goal"
    /\ IF rows = {}
       THEN /\ pc' = "agents_config"
            /\ rows' = AGENT_CONFIG_QUERY
            /\ UNCHANGED agents
       ELSE \E row \in rows :
                LET iri == StripStr(row.agent)
                IN  /\ rows' = rows \ {row}
                    /\ agents' = IF HasIri(agents, iri) /\ agents[IndexOfIri(agents, iri)].goal = << >>
                                 THEN [agents EXCEPT ![IndexOfIri(agents, iri)].goal = StripStr(row.goalDesc)]
                                 ELSE agents
                    /\ UNCHANGED pc
    /\ UNCHANGED <<bools, agentLocals>>

\* the body of the loop of lines 682-693 on one row, with the overwrite guards dropped
ConfigFallbackOverwrites(map, row) ==
    LET iri   == StripStr(row.subject)
        key   == LowerStr(StripStr(row.key))
        value == StripStr(row.value)
    IN  IF ~HasIri(map, iri) THEN map
        ELSE LET i == IndexOfIri(map, iri)
             IN  IF key = STR_goal THEN [map EXCEPT ![i].goal = value]
                 ELSE IF key = STR_backstory THEN [map EXCEPT ![i].backstory = value]
                 ELSE IF key = STR_role THEN [map EXCEPT ![i].role = value]
                 ELSE map

\* the body of the loop of lines 682-693 on one row
ConfigFallback(map, row) ==
    LET iri   == StripStr(row.subject)
        key   == LowerStr(StripStr(row.key))
        value == StripStr(row.value)
    IN  IF ~HasIri(map, iri) THEN map
        ELSE LET i == IndexOfIri(map, iri)
             IN  IF key = STR_goal /\ map[i].goal = << >> THEN [map EXCEPT ![i].goal = value]
                 ELSE IF key = STR_backstory /\ map[i].backstory = << >> THEN [map EXCEPT ![i].backstory = value]
                 ELSE IF key = STR_role /\ map[i].role = << >> THEN [map EXCEPT ![i].role = value]
                 ELSE map

\* lines 681-693: role, goal and backstory from the agentConfig pairs
ExtractAgentsConfig ==
    /\ pc = "agents_config"
    /\ IF rows = {}
       THEN /\ pc' = "agents_backstory"
            /\ rows' = AGENT_BACKSTORY_FROM_PROMPT_QUERY
            /\ UNCHANGED agents
       ELSE \E row \in rows :
                /\ rows' = rows \ {row}
                /\ agents' = ConfigFallback(agents, row)
                /\ UNCHANGED pc
    /\ UNCHANGED <<bools, agentLocals>>

\* lines 695-699: backstory from the prompt instruction
ExtractAgentsBackstory ==
    /\ pc = "agents_backstory"
    /\ IF rows = {}
       THEN /\ pc' = "agents_tools"
            /\ rows' = AGENT_TOOLS_QUERY
            /\ UNCHANGED agents
       ELSE \E row \in rows :
                LET iri == StripStr(row.agent)
                IN  /\ rows' = rows \ {row}
                    /\ agents' = IF HasIri(agents, iri) /\ agents[IndexOfIri(agents, iri)].backstory = << >>
                                 THEN [agents EXCEPT ![IndexOfIri(agents, iri)].backstory = StripStr(row.instruction)]
                                 ELSE agents
                    /\ UNCHANGED pc
    /\ UNCHANGED <<bools, agentLocals>>

InSeq(x, s) == \E i \in 1..Len(s) : s[i] = x

\* lines 701-708: the tool links
ExtractAgentsTools ==
    /\ pc = "agents_tools"
    /\ IF rows = {}
       THEN /\ pc' = "agents_llm"
            /\ rows' = AGENT_LLM_QUERY
            /\ UNCHANGED agents
       ELSE \E row \in rows :
                LET iri      == StripStr(row.agent)
                    tool_iri == StripStr(row.tool)
                IN  /\ rows' = rows \ {row}
                    /\ agents' =
                           IF HasIri(agents, iri) /\ HasIri(tools, tool_iri)
                           THEN LET tool_var == tools[IndexOfIri(tools, tool_iri)].var_name
                                    i        == IndexOfIri(agents, iri)
                                IN  IF InSeq(tool_var, agents[i].tool_var_names) THEN agents
                                    ELSE [agents EXCEPT ![i].tool_var_names = Append(@, tool_var)]
                           ELSE agents
                    /\ UNCHANGED pc
    /\ UNCHANGED <<bools, agentLocals>>

\* lines 710-715: the language model link
ExtractAgentsLlm ==
    /\ pc = "agents_llm"
    /\ IF rows = {}
       THEN /\ pc' = "agents_delegation"
            /\ rows' = AGENT_DELEGATION_QUERY
            /\ UNCHANGED agents
       ELSE \E row \in rows :
                LET iri    == StripStr(row.agent)
                    lm_iri == StripStr(row.lm)
                IN  /\ rows' = rows \ {row}
                    /\ agents' = IF HasIri(agents, iri) /\ HasIri(language_models, lm_iri)
                                 THEN [agents EXCEPT ![IndexOfIri(agents, iri)].llm = <<lm_iri>>]
                                 ELSE agents
                    /\ UNCHANGED pc
    /\ UNCHANGED <<bools, agentLocals>>

\* bools.pop() of the one-element sets: lines 728-730 and 745-747
BoolName(b) == IF b THEN "True" ELSE "False"

UnambiguousBool(iri) == \E b \in BOOLEAN : <<iri, b>> \in bools /\ <<iri, ~b>> \notin bools

TheBool(iri) == BoolName(CHOOSE b \in BOOLEAN : <<iri, b>> \in bools)

\* a plausible slip: with both values observed the step still takes one of them
DelegationResolvedAny(map) ==
    [i \in 1..Len(map) |->
        IF \E b \in BOOLEAN : <<map[i].iri, b>> \in bools
        THEN [map[i] EXCEPT !.allow_delegation = TheBool(map[i].iri)]
        ELSE map[i]]

\* lines 728-731
DelegationResolved(map) ==
    [i \in 1..Len(map) |->
        IF UnambiguousBool(map[i].iri)
        THEN [map[i] EXCEPT !.allow_delegation = TheBool(map[i].iri)]
        ELSE map[i]]

DelegWords == {<<"t","r","u","e">>, <<"f","a","l","s","e">>, <<"0">>, <<"1">>, <<"y","e","s">>, <<"n","o">>}

\* lines 717-731: allow_delegation from the config key, Strategy 1
ExtractAgentsDelegation ==
    /\ pc = "agents_delegation"
    /\ IF rows = {}
       THEN /\ pc' = "agents_verbose"
            /\ rows' = AGENT_VERBOSE_QUERY
            /\ agents' = DelegationResolved(agents)
            /\ bools' = {}
       ELSE \E row \in rows :
                LET iri == StripStr(row.subject)
                    val == LowerStr(StripStr(StripStr(row.value)))
                IN  /\ rows' = rows \ {row}
                    /\ bools' = IF HasIri(agents, iri) /\ val \in DelegWords
                                THEN bools \cup {<<iri, val \in TrueWords>>}
                                ELSE bools
                    /\ UNCHANGED <<pc, agents>>
    /\ UNCHANGED agentLocals

VerboseResolved(map) ==
    [i \in 1..Len(map) |->
        IF UnambiguousBool(map[i].iri)
        THEN [map[i] EXCEPT !.verbose = TheBool(map[i].iri)]
        ELSE map[i]]

\* lines 733-748: verbose from the config key, Strategy 1
ExtractAgentsVerbose ==
    /\ pc = "agents_verbose"
    /\ IF rows = {}
       THEN /\ pc' = "agents_raw_ttl"
            /\ rows' = {}
            /\ agents' = VerboseResolved(agents)
            /\ bools' = {}
       ELSE \E row \in rows :
                LET iri == StripStr(row.subject)
                    val == LowerStr(StripStr(StripStr(row.value)))
                IN  /\ rows' = rows \ {row}
                    /\ bools' = IF HasIri(agents, iri) /\ (val \in DelegWords \cup {<<"n","o","n","e">>} \/ IsDigitStr(val))
                                THEN bools \cup {<<iri, val \notin FalseWords>>}
                                ELSE bools
                    /\ UNCHANGED <<pc, agents>>
    /\ UNCHANGED agentLocals

\* lines 758-770 for one agent, given what _find_config_value_for_agent returned
RawTtlResolved(agent, found_deleg, found_verbose) ==
    [agent EXCEPT
        !.allow_delegation =
            IF @ = None /\ found_deleg # NotFound
            THEN BoolName(LowerStr(found_deleg) \in TrueWords)
            ELSE @,
        !.verbose =
            IF @ = None /\ found_verbose # NotFound
            THEN BoolName(LowerStr(found_verbose) \notin FalseWords)
            ELSE @]

\* lines 750-770: Strategy 1.5, the pairs recovered from the raw text
ExtractAgentsRawTtl ==
    /\ pc = "agents_raw_ttl"
    /\ pc' = "agents_text"
    /\ rows' = AGENT_TEXT_FIELDS_QUERY
    /\ IF doc.raw_ttl = << >> THEN UNCHANGED agents
       ELSE LET ttl_kv == ParseConfigKvFromTtl(doc.raw_ttl)
                Values == UNION {FoundConfigValues(agents[i].iri, k, ttl_kv) :
                                     i \in 1..Len(agents), k \in {STR_allow_delegation, STR_verbose}}
            IN  \E fd \in [1..Len(agents) -> Values], fv \in [1..Len(agents) -> Values] :
                    /\ \A i \in 1..Len(agents) :
                           /\ fd[i] \in FoundConfigValues(agents[i].iri, STR_allow_delegation, ttl_kv)
                           /\ fv[i] \in FoundConfigValues(agents[i].iri, STR_verbose, ttl_kv)
                    /\ agents' = [i \in 1..Len(agents) |-> RawTtlResolved(agents[i], fd[i], fv[i])]
    /\ UNCHANGED <<bools, agentLocals>>

\* " ".join(filter(None, fields))
RECURSIVE JoinNonEmpty(_)
JoinNonEmpty(fields) ==
    IF fields = << >> THEN << >>
    ELSE IF Head(fields) = << >> THEN JoinNonEmpty(Tail(fields))
    ELSE LET rest == JoinNonEmpty(Tail(fields))
         IN  IF rest = << >> THEN Head(fields) ELSE Head(fields) \o <<" ">> \o rest

\* lines 778-794 for one agent and one row
TextFlagsResolved(agent, row) ==
    LET all_text == JoinNonEmpty(<<StripStr(row.desc), StripStr(row.comment),
                                   StripStr(row.promptCtx), StripStr(row.promptInstr)>>)
    IN  IF StripStr(all_text) = << >> THEN agent
        ELSE [agent EXCEPT
                 !.allow_delegation =
                     IF @ = None /\ ParseBoolFromText(all_text, STR_allow_delegation) # None
                     THEN ParseBoolFromText(all_text, STR_allow_delegation) ELSE @,
                 !.verbose =
                     IF @ = None /\ ParseBoolFromText(all_text, STR_verbose) # None
                     THEN ParseBoolFromText(all_text, STR_verbose) ELSE @]

\* lines 772-794: Strategy 2, the text fields
ExtractAgentsText ==
    /\ pc = "agents_text"
    /\ IF rows = {}
       THEN /\ pc' = "agents_defaults"
            /\ rows' = {}
            /\ UNCHANGED agents
       ELSE \E row \in rows :
                LET iri == StripStr(row.agent)
                IN  /\ rows' = rows \ {row}
                    /\ agents' = IF HasIri(agents, iri)
                                 THEN [agents EXCEPT ![IndexOfIri(agents, iri)] = TextFlagsResolved(@, row)]
                                 ELSE agents
                    /\ UNCHANGED pc
    /\ UNCHANGED <<bools, agentLocals>>

LLM_AGENT == <<"L","L","M"," ","A","g","e","n","t">>

\* a plausible slip: the role is defaulted after the goal
FinalDefaultsGoalFirst(agent) ==
    LET goal == IF agent.goal = << >> THEN agent.role ELSE agent.goal
        role == IF agent.role = << >> THEN LLM_AGENT ELSE agent.role
    IN  [agent EXCEPT
            !.role = role,
            !.goal = goal,
            !.backstory = IF @ = << >> THEN <<"Y","o","u"," ","a","r","e"," ","a"," ">> \o role \o <<".">> ELSE @]

\* lines 798-803
FinalDefaults(agent) ==
    LET role == IF agent.role = << >> THEN LLM_AGENT ELSE agent.role
        goal == IF agent.goal = << >> THEN role ELSE agent.goal
    IN  [agent EXCEPT
            !.role = role,
            !.goal = goal,
            !.backstory = IF @ = << >> THEN <<"Y","o","u"," ","a","r","e"," ","a"," ">> \o role \o <<".">> ELSE @]

\* lines 796-805: the final defaults; the function returns
ExtractAgentsDefaults ==
    /\ pc = "agents_defaults"
    /\ pc' = "agents_done"
    /\ agents' = [i \in 1..Len(agents) |-> FinalDefaults(agents[i])]
    /\ UNCHANGED <<rows, bools, agentLocals>>

(***************************************************************************)
(* _extract_tools.  tools is tools_map: the ToolModel records in insertion *)
(* order.                                                                  *)
(***************************************************************************)
TOOLS_QUERY ==
    UNION {{[tool |-> t, label |-> l, desc |-> d, comment |-> c] :
                l \in Opt(Objects(doc.label, t)), d \in Opt(Objects(doc.description, t)),
                c \in Opt(Objects(doc.comment, t))} : t \in doc.toolNodes \ doc.llmAgents}

TOOL_CONFIGS_QUERY ==
    UNION {ConfigRows(p[1], p[2]) : p \in {q \in doc.hasToolConfig : q[1] \in doc.toolNodes \ doc.llmAgents}}

\* re.sub(r"[^a-zA-Z0-9]", "", class_name)
KeepAlNum(s) == SelectSeq(s, LAMBDA c : c \in AlNum)

NewTool(row) ==
    LET iri   == StripStr(row.tool)
        label == StripStr(row.label)
    IN  [iri |-> iri,
         var_name |-> SafeVar(iri),
         label |-> label,
         class_name |-> KeepAlNum(IF label # << >> THEN label ELSE SafeVar(iri)),
         description |-> StripStr(Or(StripStr(row.desc), Or(StripStr(row.comment), << >>))),
         configs |-> << >>]

toolLocals == <<doc, bools, language_models, agents, tasks, resource_to_producer, workflow_steps,
                task_list, input_variables, arg, ret, extra>>

\* lines 608-628: the Tool individuals
ExtractToolsPrimary ==
    /\ pc = "tools_primary"
    /\ IF rows = {}
       THEN /\ pc' = "tools_configs"
            /\ rows' = TOOL_CONFIGS_QUERY
            /\ UNCHANGED tools
       ELSE \E row \in rows :
                /\ rows' = rows \ {row}
                /\ tools' = IF HasIri(tools, StripStr(row.tool)) THEN tools ELSE Append(tools, NewTool(row))
                /\ UNCHANGED pc
    /\ UNCHANGED toolLocals

\* lines 630-638: the tool configs; the function returns
ExtractToolsConfigs ==
    /\ pc = "tools_configs"
    /\ IF rows = {}
       THEN /\ pc' = "tools_done"
            /\ UNCHANGED <<rows, tools>>
       ELSE \E row \in rows :
                LET iri == StripStr(row.subject)
                IN  /\ rows' = rows \ {row}
                    /\ tools' = IF HasIri(tools, iri)
                                THEN [tools EXCEPT ![IndexOfIri(tools, iri)].configs =
                                          Append(@, [key |-> StripStr(row.key), value |-> StripStr(row.value)])]
                                ELSE tools
                    /\ UNCHANGED pc
    /\ UNCHANGED toolLocals

(***************************************************************************)
(* _extract_tasks.  tasks is tasks_map: the TaskModel records in insertion *)
(* order.                                                                  *)
(***************************************************************************)
STR_description == <<"d","e","s","c","r","i","p","t","i","o","n">>

STR_expected_output == <<"e","x","p","e","c","t","e","d","_","o","u","t","p","u","t">>

TASKS_QUERY ==
    UNION {{[task |-> t, label |-> l, desc |-> d, agent |-> a] :
                l \in Opt(Objects(doc.label, t)), d \in Opt(Objects(doc.description, t)),
                a \in Opt(Objects(doc.performedByAgent, t))} : t \in doc.taskNodes}

\* ?task :hasAgentConfig ?cfg . ?cfg :configKey "<key>" ; :configValue ?value
TaskConfigRows(key) ==
    UNION {{[task |-> p[1], cfg |-> p[2], value |-> v] : v \in ConfigValues(p[2])} :
               p \in {q \in doc.hasAgentConfig : q[1] \in doc.taskNodes /\ key \in ConfigKeys(q[2])}}

TASK_DESCRIPTION_CONFIG_QUERY == TaskConfigRows(STR_description)

TASK_EXPECTED_CONFIG_QUERY == TaskConfigRows(STR_expected_output)

TASK_PROMPT_QUERY ==
    UNION {{[task |-> p[1], prompt |-> p[2], instruction |-> i, outputIndicator |-> o] :
                i \in Opt(Objects(doc.promptInstruction, p[2])),
                o \in Opt(Objects(doc.promptOutputIndicator, p[2]))} :
               p \in {q \in doc.taskPrompt \cup doc.hasPrompt : q[1] \in doc.taskNodes /\ q[2] \in doc.prompts}}

\* the mutant of AgentVarOf: the name is made from the IRI, known or not
AgentVarOfUnchecked(map, agent_iri) == IF agent_iri = << >> THEN << >> ELSE SafeVar(agent_iri)

\* agent_iri_to_var.get(agent_iri, "")
AgentVarOf(map, agent_iri) == IF HasIri(map, agent_iri) THEN map[IndexOfIri(map, agent_iri)].var_name ELSE << >>

NewTask(row) ==
    LET iri   == StripStr(row.task)
        label == StripStr(row.label)
    IN  [iri |-> iri,
         var_name |-> VarNameOf(Or(label, SafeVar(iri))),
         description |-> StripStr(row.desc),
         expected_output |-> << >>,
         agent_var_name |-> AgentVarOf(agents, StripStr(row.agent)),
         context_task_var_names |-> << >>]

taskLocals == <<doc, bools, language_models, tools, agents, resource_to_producer, workflow_steps,
                task_list, input_variables, arg, ret, extra>>

\* lines 815-835: the primary properties
ExtractTasksPrimary ==
    /\ pc = "tasks_primary"
    /\ IF rows = {}
       THEN /\ pc' = "tasks_config_description"
            /\ rows' = TASK_DESCRIPTION_CONFIG_QUERY
            /\ UNCHANGED tasks
       ELSE \E row \in rows :
                /\ rows' = rows \ {row}
                /\ tasks' = IF HasIri(tasks, StripStr(row.task)) THEN tasks ELSE Append(tasks, NewTask(row))
                /\ UNCHANGED pc
    /\ UNCHANGED taskLocals

\* lines 837-844: the description of the Config node, if it is longer
ExtractTasksConfigDescription ==
    /\ pc = "tasks_config_description"
    /\ IF rows = {}
       THEN /\ pc' = "tasks_prompt"
            /\ rows' = TASK_PROMPT_QUERY
            /\ UNCHANGED tasks
       ELSE \E row \in rows :
                LET iri == StripStr(row.task)
                    val == StripStr(row.value)
                IN  /\ rows' = rows \ {row}
                    /\ tasks' = IF HasIri(tasks, iri) /\ Len(val) > Len(tasks[IndexOfIri(tasks, iri)].description)
                                THEN [tasks EXCEPT ![IndexOfIri(tasks, iri)].description = val]
                                ELSE tasks
                    /\ UNCHANGED pc
    /\ UNCHANGED taskLocals

\* lines 851-856 for one task and one row
PromptFilled(task, row) ==
    LET instr  == StripStr(row.instruction)
        output == StripStr(row.outputIndicator)
    IN  [task EXCEPT
            !.expected_output = IF output # << >> /\ @ = << >> THEN output ELSE @,
            !.description = IF instr # << >> /\ @ = << >> THEN instr ELSE @]

\* lines 846-856: the prompt data
ExtractTasksPrompt ==
    /\ pc = "tasks_prompt"
    /\ IF rows = {}
       THEN /\ pc' = "tasks_expected_config"
            /\ rows' = TASK_EXPECTED_CONFIG_QUERY
            /\ UNCHANGED tasks
       ELSE \E row \in rows :
                LET iri == StripStr(row.task)
                IN  /\ rows' = rows \ {row}
                    /\ tasks' = IF HasIri(tasks, iri)
                                THEN [tasks EXCEPT ![IndexOfIri(tasks, iri)] = PromptFilled(@, row)]
                                ELSE tasks
                    /\ UNCHANGED pc
    /\ UNCHANGED taskLocals

\* lines 858-863: the expected output of the Config node
ExtractTasksExpectedConfig ==
    /\ pc = "tasks_expected_config"
    /\ IF rows = {}
       THEN /\ pc' = "tasks_defaults"
            /\ UNCHANGED <<rows, tasks>>
       ELSE \E row \in rows :
                LET iri == StripStr(row.task)
                IN  /\ rows' = rows \ {row}
                    /\ tasks' = IF HasIri(tasks, iri) /\ tasks[IndexOfIri(tasks, iri)].expected_output = << >>
                                THEN [tasks EXCEPT ![IndexOfIri(tasks, iri)].expected_output = StripStr(row.value)]
                                ELSE tasks
                    /\ UNCHANGED pc
    /\ UNCHANGED taskLocals

\* str.replace("_", " ")
UnderscoresToSpaces(s) == [i \in 1..Len(s) |-> IF s[i] = "_" THEN " " ELSE s[i]]

\* str.title(): a letter that follows a letter is lowercased, any other letter uppercased
Title(s) ==
    [i \in 1..Len(s) |->
        IF i > 1 /\ s[i-1] \in Upper \cup Lower THEN ToLower(s[i]) ELSE ToUpper(s[i])]

COMPLETED == <<"C","o","m","p","l","e","t","e","d",":"," ">>

\* a plausible slip: the identifier itself as description
TaskDefaultsNoTitle(task) ==
    [task EXCEPT
        !.description = IF @ = << >> THEN task.var_name ELSE @,
        !.expected_output = IF @ = << >> THEN COMPLETED \o task.var_name ELSE @]

\* lines 867-870
TaskDefaults(task) ==
    [task EXCEPT
        !.description = IF @ = << >> THEN Title(UnderscoresToSpaces(task.var_name)) ELSE @,
        !.expected_output = IF @ = << >> THEN COMPLETED \o task.var_name ELSE @]

\* lines 865-872: the final defaults; the function returns
ExtractTasksDefaults ==
    /\ pc = "tasks_defaults"
    /\ pc' = "tasks_done"
    /\ tasks' = [i \in 1..Len(tasks) |-> TaskDefaults(tasks[i])]
    /\ UNCHANGED <<rows, taskLocals>>

(***************************************************************************)
(* _resolve_task_context.  resource_to_producer is a function from the     *)
(* resources to the identifier of the producer recorded for them.          *)
(***************************************************************************)
TASK_PRODUCES_QUERY ==
    {[task |-> p[1], resource |-> p[2]] : p \in {q \in doc.producedResource : q[1] \in doc.taskNodes}}

TASK_REQUIRES_QUERY ==
    {[task |-> p[1], resource |-> p[2]] : p \in {q \in doc.requiresResource : q[1] \in doc.taskNodes}}

\* d[k] = v
DictSet(d, k, v) == [x \in DOMAIN d \cup {k} |-> IF x = k THEN v ELSE d[x]]

contextLocals == <<doc, bools, language_models, tools, agents, workflow_steps, task_list,
                   input_variables, arg, ret, extra>>

\* lines 883-888: the resource -> producing task map
ResolveTaskContextProduces ==
    /\ pc = "context_produces"
    /\ IF rows = {}
       THEN /\ pc' = "context_requires"
            /\ rows' = TASK_REQUIRES_QUERY
            /\ UNCHANGED resource_to_producer
       ELSE \E row \in rows :
                LET task_iri == StripStr(row.task)
                    res_iri  == StripStr(row.resource)
                IN  /\ rows' = rows \ {row}
                    /\ resource_to_producer' =
                           IF HasIri(tasks, task_iri)
                           THEN DictSet(resource_to_producer, res_iri, tasks[IndexOfIri(tasks, task_iri)].var_name)
                           ELSE resource_to_producer
                    /\ UNCHANGED pc
    /\ UNCHANGED <<tasks, contextLocals>>

\* lines 895-898 for the consuming task
ContextAppended(task, producer_var) ==
    IF producer_var # task.var_name /\ ~InSeq(producer_var, task.context_task_var_names)
    THEN [task EXCEPT !.context_task_var_names = Append(@, producer_var)]
    ELSE task

\* lines 890-898: the producer of each required resource; the function returns
ResolveTaskContextRequires ==
    /\ pc = "context_requires"
    /\ IF rows = {}
       THEN /\ pc' = "context_done"
            /\ UNCHANGED <<rows, tasks>>
       ELSE \E row \in rows :
                LET task_iri == StripStr(row.task)
                    res_iri  == StripStr(row.resource)
                IN  /\ rows' = rows \ {row}
                    /\ tasks' = IF HasIri(tasks, task_iri) /\ res_iri \in DOMAIN resource_to_producer
                                THEN [tasks EXCEPT ![IndexOfIri(tasks, task_iri)] =
                                          ContextAppended(@, resource_to_producer[res_iri])]
                                ELSE tasks
                    /\ UNCHANGED pc
    /\ UNCHANGED <<resource_to_producer, contextLocals>>

(***************************************************************************)
(* _extract_workflow.  A row of WORKFLOW_QUERY is a record                 *)
(*   [step, stepType, task, stepOrder]                                     *)
(* where stepOrder is Unbound, an integer literal or a literal that int()  *)
(* cannot read.                                                            *)
(***************************************************************************)
Unbound == [kind |-> "unbound", value |-> 0]

IntLiteral(n) == [kind |-> "int", value |-> n]

TextLiteral == [kind |-> "text", value |-> 0]

StepTypeIris == {<<"o","#","W","o","r","k","f","l","o","w","S","t","e","p">>, <<"o","#","S","t","a","r","t","S","t","e","p">>, <<"o","#","E","n","d","S","t","e","p">>}

WORKFLOW_QUERY == {s \in doc.steps : s.stepType \in StepTypeIris}

\* ORDER BY ?stepOrder: the rows without an order come first.  The rows with
\* an order follow in the order of the literal terms, which is not the order
\* of the integers int() reads from them (the plain literal "10" sorts before
\* "9"): the model takes them in any order.
NextWorkflowRows == IF \E r \in rows : r.stepOrder = Unbound THEN {r \in rows : r.stepOrder = Unbound} ELSE rows

\* task_iri_to_var.get(task_iri, _safe_var(task_iri))
TaskVarOf(map, task_iri) == IF HasIri(map, task_iri) THEN map[IndexOfIri(map, task_iri)].var_name ELSE SafeVar(task_iri)

\* list.sort(key=...) and sorted(..., key=...) are stable: the positions of
\* the first n items, in ascending order of their keys, equal keys in the
\* order of the positions
RECURSIVE InsertByKey(_, _, _)
InsertByKey(keys, idx, i) ==
    IF idx = << >> THEN <<i>>
    ELSE IF keys[Head(idx)] > keys[i] THEN <<i>> \o idx
    ELSE <<Head(idx)>> \o InsertByKey(keys, Tail(idx), i)

RECURSIVE SortedIndices(_, _)
SortedIndices(keys, n) == IF n = 0 THEN << >> ELSE InsertByKey(keys, SortedIndices(keys, n - 1), n)

StableSortByKey(items, keys) == [p \in 1..Len(items) |-> items[SortedIndices(keys, Len(items))[p]]]

NewStep(row) ==
    [step_order |-> IF row.stepOrder # Unbound THEN row.stepOrder.value ELSE Len(workflow_steps) + 1,
     task_var_name |-> TaskVarOf(tasks, StripStr(row.task)),
     step_type |-> AfterLast(StripStr(row.stepType), "#")]

workflowLocals == <<doc, bools, language_models, tools, agents, tasks, resource_to_producer,
                    task_list, input_variables, arg, ret, extra>>

\* lines 906-920: the steps, then the sort; int() raises ValueError on a
\* literal that is not an integer
ExtractWorkflow ==
    /\ pc = "workflow"
    /\ IF rows = {}
       THEN /\ pc' = "workflow_done"
            /\ workflow_steps' = StableSortByKey(workflow_steps, [i \in 1..Len(workflow_steps) |-> workflow_steps[i].step_order])
            /\ UNCHANGED rows
       ELSE \E row \in NextWorkflowRows :
                IF row.stepOrder.kind = "text"
                THEN /\ pc' = "raised"
                     /\ UNCHANGED <<rows, workflow_steps>>
                ELSE /\ rows' = rows \ {row}
                     /\ workflow_steps' = Append(workflow_steps, NewStep(row))
                     /\ UNCHANGED pc
    /\ UNCHANGED workflowLocals

(***************************************************************************)
(* _extract_placeholders and _extract_input_variables.  input_variables is *)
(* all_vars: the (name, default) entries in insertion order.               *)
(***************************************************************************)
WordChars == AlNum \cup {"_"}

\* the end of the run of word characters that starts at j (j - 1: no run)
RECURSIVE WordEnd(_, _)
WordEnd(text, j) == IF j <= Len(text) /\ text[j] \in WordChars THEN WordEnd(text, j + 1) ELSE j - 1

\* re.findall(r"\{(\w+)\}", text), from position i on
RECURSIVE FindPlaceholders(_, _)
FindPlaceholders(text, i) ==
    IF i > Len(text) THEN << >>
    ELSE LET e == WordEnd(text, i + 1)
         IN  IF text[i] = "{" /\ e > i /\ e < Len(text) /\ text[e + 1] = "}"
             THEN <<SubSeq(text, i + 1, e)>> \o FindPlaceholders(text, e + 2)
             ELSE FindPlaceholders(text, i + 1)

\* list(dict.fromkeys(names))
RECURSIVE Dedupe(_)
Dedupe(names) ==
    IF names = << >> THEN << >>
    ELSE LET init == Dedupe(SubSeq(names, 1, Len(names) - 1))
         IN  IF InSeq(names[Len(names)], init) THEN init ELSE Append(init, names[Len(names)])

ExtractPlaceholders(text) == Dedupe(FindPlaceholders(text, 1))

HasVar(all_vars, name) == \E i \in 1..Len(all_vars) : all_vars[i].name = name

\* for var_name in names: if var_name not in all_vars: all_vars[var_name] = ""
RECURSIVE AddVars(_, _)
AddVars(all_vars, names) ==
    IF names = << >> THEN all_vars
    ELSE AddVars(IF HasVar(all_vars, Head(names)) THEN all_vars
                 ELSE Append(all_vars, [name |-> Head(names), default_value |-> << >>]),
                 Tail(names))

\* lines 932-935 over the first n tasks
RECURSIVE VarsOfTasks(_, _)
VarsOfTasks(map, n) ==
    IF n = 0 THEN << >> ELSE AddVars(VarsOfTasks(map, n - 1), ExtractPlaceholders(map[n].description))

PROMPT_INPUT_DATA_QUERY ==
    {[inputData |-> p[2]] : p \in {q \in doc.promptInputData : q[1] \in doc.prompts}}

STR_input == <<"i","n","p","u","t">>

\* CONTAINS(text, part)
Contains(text, part) == \E i \in 1..(Len(text) - Len(part) + 1) : SubSeq(text, i, i + Len(part) - 1) = part

DEFAULT_INPUTS_QUERY ==
    {[resource |-> p[1], desc |-> p[2]] :
         p \in {q \in doc.description : q[1] \in doc.resourceNodes /\ Contains(LowerStr(q[2]), STR_input)}}

\* str.split("\n")
RECURSIVE SplitLines(_)
SplitLines(text) ==
    IF \E i \in 1..Len(text) : text[i] = "\n"
    THEN LET i == CHOOSE k \in 1..Len(text) : text[k] = "\n" /\ \A j \in 1..(k - 1) : text[j] # "\n"
         IN  <<SubSeq(text, 1, i - 1)>> \o SplitLines(Drop(text, i))
    ELSE <<text>>

\* re.match(r"(\w+)\s*[:=]\s*(.+)", line): << key, val >>, or << >> for no match
DefaultLineMatch(line) ==
    LET e == WordEnd(line, 1)
        j == SkipSpace(line, e + 1)
    IN  IF e < 1 \/ j > Len(line) \/ line[j] \notin {":", "="} THEN << >>
        ELSE LET k == SkipSpace(line, j + 1)
             IN  IF k > Len(line) THEN << >>
                 ELSE <<StripStr(SubSeq(line, 1, e)), StripChars(StripStr(SubSeq(line, k, Len(line))), {"'", "\""})>>

\* a plausible slip: a line introduces its key as a new variable
ApplyDefaultLineAdds(all_vars, raw_line) ==
    LET line == StripStr(LStrip(StripStr(raw_line), {"-"}))
        m    == DefaultLineMatch(line)
    IN  IF m = << >> THEN all_vars
        ELSE IF HasVar(all_vars, m[1])
        THEN [i \in 1..Len(all_vars) |->
                 IF all_vars[i].name = m[1] THEN [all_vars[i] EXCEPT !.default_value = m[2]] ELSE all_vars[i]]
        ELSE Append(all_vars, [name |-> m[1], default_value |-> m[2]])

\* lines 949-956 for one line
ApplyDefaultLine(all_vars, raw_line) ==
    LET line == StripStr(LStrip(StripStr(raw_line), {"-"}))
        m    == DefaultLineMatch(line)
    IN  IF m = << >> THEN all_vars
        ELSE [i \in 1..Len(all_vars) |->
                 IF all_vars[i].name = m[1] THEN [all_vars[i] EXCEPT !.default_value = m[2]] ELSE all_vars[i]]

\* lines 948-956 over the lines of one description
RECURSIVE ApplyDefaultLines(_, _)
ApplyDefaultLines(all_vars, lines) ==
    IF lines = << >> THEN all_vars
    ELSE ApplyDefaultLines(ApplyDefaultLine(all_vars, Head(lines)), Tail(lines))

varLocals == <<doc, bools, language_models, tools, agents, tasks, resource_to_producer,
               workflow_steps, task_list, arg, ret, extra>>

\* lines 929-935: the placeholders of the task descriptions
InputVariablesFromTasks ==
    /\ pc = "vars_tasks"
    /\ pc' = "vars_prompt"
    /\ rows' = PROMPT_INPUT_DATA_QUERY
    /\ input_variables' = VarsOfTasks(tasks, Len(tasks))
    /\ UNCHANGED varLocals

\* lines 937-942: the placeholders of the prompt input data
InputVariablesFromPrompts ==
    /\ pc = "vars_prompt"
    /\ IF rows = {}
       THEN /\ pc' = "vars_defaults"
            /\ rows' = DEFAULT_INPUTS_QUERY
            /\ UNCHANGED input_variables
       ELSE \E row \in rows :
                /\ rows' = rows \ {row}
                /\ input_variables' = AddVars(input_variables, ExtractPlaceholders(StripStr(row.inputData)))
                /\ UNCHANGED pc
    /\ UNCHANGED varLocals

\* lines 944-961: the default values; the function returns
InputVariablesDefaults ==
    /\ pc = "vars_defaults"
    /\ IF rows = {}
       THEN /\ pc' = "vars_done"
            /\ UNCHANGED <<rows, input_variables>>
       ELSE \E row \in rows :
                /\ rows' = rows \ {row}
                /\ input_variables' = ApplyDefaultLines(input_variables, SplitLines(StripStr(row.desc)))
                /\ UNCHANGED pc
    /\ UNCHANGED varLocals

(***************************************************************************)
(* extract_crew_project: the calls of steps 4 to 9 and the reordering of   *)
(* the tasks.                                                              *)
(***************************************************************************)
\* line 1004
CallExtractAgents ==
    /\ pc = "tools_done"
    /\ pc' = "agents_primary"
    /\ rows' = AGENTS_QUERY
    /\ UNCHANGED <<doc, bools, language_models, tools, agents, tasks, resource_to_producer,
                   workflow_steps, task_list, input_variables, arg, ret, extra>>

\* line 1007
CallExtractTasks ==
    /\ pc = "agents_done"
    /\ pc' = "tasks_primary"
    /\ rows' = TASKS_QUERY
    /\ UNCHANGED <<doc, bools, language_models, tools, agents, tasks, resource_to_producer,
                   workflow_steps, task_list, input_variables, arg, ret, extra>>

\* line 1010
CallResolveTaskContext ==
    /\ pc = "tasks_done"
    /\ pc' = "context_produces"
    /\ rows' = TASK_PRODUCES_QUERY
    /\ UNCHANGED <<doc, bools, language_models, tools, agents, tasks, resource_to_producer,
                   workflow_steps, task_list, input_variables, arg, ret, extra>>

\* line 1013
CallExtractWorkflow ==
    /\ pc = "context_done"
    /\ pc' = "workflow"
    /\ rows' = WORKFLOW_QUERY
    /\ UNCHANGED <<doc, bools, language_models, tools, agents, tasks, resource_to_producer,
                   workflow_steps, task_list, input_variables, arg, ret, extra>>

DEFAULT_STEP_ORDER == 999

\* step_order.get(name, 999), where step_order = {s.task_var_name: s.step_order for s in steps}:
\* the last step of a name gives its order
StepOrderGet(steps, name) ==
    IF \E i \in 1..Len(steps) : steps[i].task_var_name = name
    THEN steps[CHOOSE i \in 1..Len(steps) :
                   steps[i].task_var_name = name /\ \A j \in (i + 1)..Len(steps) : steps[j].task_var_name # name].step_order
    ELSE DEFAULT_STEP_ORDER

\* lines 1015-1023
ReorderTasks ==
    /\ pc = "workflow_done"
    /\ pc' = "reordered"
    /\ task_list' = IF workflow_steps # << >>
                    THEN StableSortByKey(tasks, [i \in 1..Len(tasks) |-> StepOrderGet(workflow_steps, tasks[i].var_name)])
                    ELSE tasks
    /\ UNCHANGED <<doc, rows, bools, language_models, tools, agents, tasks, resource_to_producer,
                   workflow_steps, input_variables, arg, ret, extra>>

\* line 1026
CallExtractInputVariables ==
    /\ pc = "reordered"
    /\ pc' = "vars_tasks"
    /\ UNCHANGED <<doc, rows, bools, language_models, tools, agents, tasks, resource_to_producer,
                   workflow_steps, task_list, input_variables, arg, ret, extra>>

\* lines 1031-1043: the project record
CrewProject ==
    [kind |-> "project",
     crew_name |-> team.crew_name,
     crew_var_name |-> SafeVar(team.crew_name),
     description |-> team.description,
     process |-> team.process,
     agents |-> agents,
     tasks |-> task_list,
     tools |-> tools,
     workflow_steps |-> workflow_steps,
     input_variables |-> input_variables,
     language_models |-> language_models,
     env_vars |-> env_vars]

\* lines 1031-1053: the project is assembled and returned
ReturnProject ==
    /\ pc = "env_done"
    /\ pc' = "project_done"
    /\ UNCHANGED <<doc, rows, bools, language_models, tools, agents, tasks, resource_to_producer,
                   workflow_steps, task_list, input_variables, arg, ret, extra>>

(***************************************************************************)
(* _extract_team.  team holds the locals crew_name, description, process   *)
(* and detected.                                                           *)
(***************************************************************************)
STR_process == <<"p","r","o","c","e","s","s">>

STR_hierarchical == <<"h","i","e","r","a","r","c","h","i","c","a","l">>

STR_sequential == <<"s","e","q","u","e","n","t","i","a","l">>

MY_CREW == <<"M","y","C","r","e","w">>

HIERARCHICAL == "HIERARCHICAL"

SEQUENTIAL == "SEQUENTIAL"

TEAM_QUERY ==
    UNION {{[team |-> t, label |-> l, desc |-> d] :
                l \in Opt(Objects(doc.label, t)), d \in Opt(Objects(doc.description, t))} : t \in doc.teams}

\* ?cfg :configKey "process" ; :configValue ?configValue  -- every value of a node that has the key
TEAM_PROCESS_QUERY ==
    UNION {{[team |-> p[1], cfg |-> p[2], configValue |-> v] : v \in ConfigValues(p[2])} :
               p \in {q \in doc.hasSystemConfig : q[1] \in doc.teams /\ STR_process \in ConfigKeys(q[2])}}

WORKFLOW_PATTERN_TEXT_QUERY ==
    UNION {{[wp |-> w, label |-> l, desc |-> d, comment |-> c, title |-> t] :
                l \in Opt(Objects(doc.label, w)), d \in Opt(Objects(doc.description, w)),
                c \in Opt(Objects(doc.comment, w)), t \in Opt(Objects(doc.title, w))} : w \in doc.workflowPatterns}

TEAM_DESC_QUERY ==
    UNION {{[team |-> t, desc |-> d, comment |-> c] :
                d \in Opt(Objects(doc.description, t)), c \in Opt(Objects(doc.comment, t))} : t \in doc.teams}

\* _infer_process_from_text
InferProcessFromText(text) ==
    IF text = << >> THEN None
    ELSE IF Contains(LowerStr(text), STR_hierarchical) THEN HIERARCHICAL
    ELSE IF Contains(LowerStr(text), STR_sequential) THEN SEQUENTIAL
    ELSE None

\* lines 514-516
NewTeam == [crew_name |-> MY_CREW, description |-> << >>, process |-> SEQUENTIAL, detected |-> FALSE]

teamLocals == <<pipeline_but_rows, arg, ret, env_vars, loader, batch, order, previous>>

\* lines 520-527 for the first row
TeamFromRow(t, row) ==
    [t EXCEPT
        !.crew_name = IF StripStr(row.label) # << >>
                      THEN Or(KeepAlNum(StripStr(row.label)), MY_CREW)
                      ELSE @,
        !.description = StripStr(row.desc)]

\* lines 518-527: the name and the description from the first row; line 530
ExtractTeamPrimary ==
    /\ pc = "team_primary"
    /\ pc' = "team_process"
    /\ rows' = TEAM_PROCESS_QUERY
    /\ IF TEAM_QUERY = {}
       THEN UNCHANGED team
       ELSE \E row \in TEAM_QUERY : team' = TeamFromRow(team, row)
    /\ UNCHANGED teamLocals

\* lines 532-539 for one row
ProcessFromConfig(t, row) ==
    LET val == LowerStr(StripStr(row.configValue))
    IN  IF Contains(val, STR_hierarchical) THEN [t EXCEPT !.process = HIERARCHICAL, !.detected = TRUE]
        ELSE IF Contains(val, STR_sequential) THEN [t EXCEPT !.process = SEQUENTIAL, !.detected = TRUE]
        ELSE t

\* lines 532-542: strategy 1, the config key "process"
ExtractTeamProcessConfig ==
    /\ pc = "team_process"
    /\ IF rows = {}
       THEN /\ IF team.detected
               THEN pc' = "team_done" /\ UNCHANGED rows
               ELSE pc' = "team_pattern" /\ rows' = WORKFLOW_PATTERN_TEXT_QUERY
            /\ UNCHANGED team
       ELSE \E row \in rows :
                /\ rows' = rows \ {row}
                /\ team' = ProcessFromConfig(team, row)
                /\ UNCHANGED pc
    /\ UNCHANGED teamLocals

\* lines 544-551: the fields of one row, up to the first that says hierarchical
RECURSIVE ProcessFromFields(_, _)
ProcessFromFields(t, fields) ==
    IF fields = << >> THEN t
    ELSE LET inferred == InferProcessFromText(Head(fields))
         IN  IF inferred = None THEN ProcessFromFields(t, Tail(fields))
             ELSE IF inferred = HIERARCHICAL THEN [t EXCEPT !.process = inferred, !.detected = TRUE]
             ELSE ProcessFromFields([t EXCEPT !.process = inferred, !.detected = TRUE], Tail(fields))

\* the function returns, or goes on to strategy 3 (line 556)
AfterWorkflowPattern(t) ==
    IF t.detected
    THEN pc' = "team_done" /\ rows' = {}
    ELSE pc' = "team_desc" /\ rows' = TEAM_DESC_QUERY

\* lines 543-553: strategy 2, the texts of the WorkflowPattern nodes
ExtractTeamWorkflowPattern ==
    /\ pc = "team_pattern"
    /\ IF rows = {}
       THEN AfterWorkflowPattern(team) /\ UNCHANGED team
       ELSE \E row \in rows :
                LET t == ProcessFromFields(team, <<StripStr(row.label), StripStr(row.desc),
                                                   StripStr(row.comment), StripStr(row.title)>>)
                IN  /\ team' = t
                    /\ IF t.detected /\ t.process = HIERARCHICAL
                       THEN AfterWorkflowPattern(t)
                       ELSE rows' = rows \ {row} /\ UNCHANGED pc
    /\ UNCHANGED teamLocals

\* lines 558-563: the fields of one row, up to the first that gives a signal
RECURSIVE FirstProcessFromFields(_, _)
FirstProcessFromFields(t, fields) ==
    IF fields = << >> THEN t
    ELSE LET inferred == InferProcessFromText(Head(fields))
         IN  IF inferred = None THEN FirstProcessFromFields(t, Tail(fields))
             ELSE [t EXCEPT !.process = inferred, !.detected = TRUE]

\* lines 557-567: strategy 3, the description and the comment of the Team; the function returns
ExtractTeamDescription ==
    /\ pc = "team_desc"
    /\ IF rows = {}
       THEN pc' = "team_done" /\ UNCHANGED <<rows, team>>
       ELSE \E row \in rows :
                LET t == FirstProcessFromFields(team, <<StripStr(row.desc), StripStr(row.comment)>>)
                IN  /\ team' = t
                    /\ IF t.detected
                       THEN pc' = "team_done" /\ rows' = {}
                       ELSE rows' = rows \ {row} /\ UNCHANGED pc
    /\ UNCHANGED teamLocals

(***************************************************************************)
(* parse_kg (src/src/parser.py) and load_graph.  A file is a record        *)
(*   [path, turtle |-> [ok, triples, message], xml |-> [ok, triples, message]] *)
(* For a syntax that reads the file, triples is the graph of the file; for *)
(* one that fails, triples holds what the parser added to the Graph object *)
(* before it raised its error with the message: Graph.parse adds triples   *)
(* as it reads and does not take them back.  loader holds the file, the    *)
(* Graph object g, the syntaxes tried and the error raised to the caller.  *)
(***************************************************************************)
NoError == [kind |-> "none"]

NewLoader(fn, file) == [fn |-> fn, file |-> file, g |-> {}, tried |-> << >>, error |-> NoError]

loadLocals == <<pipeline, arg, ret, team, env_vars, batch, order, previous>>

\* parser.py lines 15-18: the Graph object and the Turtle attempt
ParseKgTurtle ==
    /\ pc = "parse_kg"
    /\ loader' = [loader EXCEPT !.g = @ \cup loader.file.turtle.triples, !.tried = Append(@, "turtle")]
    /\ pc' = IF loader.file.turtle.ok THEN "parse_kg_loaded" ELSE "parse_kg_xml"
    /\ UNCHANGED loadLocals

\* parser.py lines 19-22: the RDF/XML attempt on the same Graph object; the
\* ValueError names the file and carries the message of the Turtle error
ParseKgXml ==
    /\ pc = "parse_kg_xml"
    /\ IF loader.file.xml.ok
       THEN /\ loader' = [loader EXCEPT !.g = @ \cup loader.file.xml.triples, !.tried = Append(@, "xml")]
            /\ pc' = "parse_kg_loaded"
       ELSE /\ loader' = [loader EXCEPT
                             !.g = @ \cup loader.file.xml.triples,
                             !.tried = Append(@, "xml"),
                             !.error = [kind |-> "ValueError", path |-> loader.file.path,
                                        message |-> loader.file.turtle.message]]
            /\ pc' = "parse_kg_raised"
    /\ UNCHANGED loadLocals

\* extractor.py lines 79-81: the Turtle attempt only; the error of the parser,
\* which names the file it read, goes to the caller as it is
LoadGraph ==
    /\ pc = "load_graph"
    /\ IF loader.file.turtle.ok
       THEN /\ loader' = [loader EXCEPT !.g = @ \cup loader.file.turtle.triples, !.tried = Append(@, "turtle")]
            /\ pc' = "load_graph_loaded"
       ELSE /\ loader' = [loader EXCEPT
                             !.g = @ \cup loader.file.turtle.triples,
                             !.tried = Append(@, "turtle"),
                             !.error = [kind |-> "BadSyntax", path |-> loader.file.path,
                                        message |-> loader.file.turtle.message]]
            /\ pc' = "load_graph_raised"
    /\ UNCHANGED loadLocals

(***************************************************************************)
(* The batch driver (src/runner.py).  The directory walk is a sequence of  *)
(* files [root, name, fails]; fails says which call of the try block the   *)
(* document of the file makes raise: "none", "parse_kg",                   *)
(* "generate_crewai_code" or "generate_autogen_code".  batch holds the     *)
(* walk, the number of files taken, the loop's names filename, kg_path and *)
(* base_name (UnboundName before their first assignment), PROCESSED_COUNT, *)
(* the calls of parse_kg, the output files written, the error lines        *)
(* printed and the summary line (empty until it is printed).               *)
(***************************************************************************)
DATA_DIR == <<"k","g","_","g","3">>

UnboundName == <<"unbound">>

EndsWith(s, suffix) == Len(s) >= Len(suffix) /\ SubSeq(s, Len(s) - Len(suffix) + 1, Len(s)) = suffix

\* os.path.splitext(filename)[0]: a dot that only leads the name starts no extension
SplitExtRoot(name) ==
    LET d == LastIndexOf(name, ".")
    IN  IF d > 0 /\ \E i \in 1..(d - 1) : name[i] # "." THEN SubSeq(name, 1, d - 1) ELSE name

PathJoin(root, name) == root \o <<"/">> \o name

BaseName(path) == AfterLast(path, "/")

\* runner.py line 24
IsGraphFile(filename) == EndsWith(filename, <<".","t","t","l">>) \/ EndsWith(filename, <<".","r","d","f">>)

\* runner.py lines 27-31
BaseNameFor(root, filename) ==
    IF BaseName(root) # DATA_DIR
    THEN BaseName(root) \o <<"_">> \o SplitExtRoot(filename)
    ELSE SplitExtRoot(filename)

NewBatch(files) ==
    [kind |-> "batch", files |-> files, taken |-> 0,
     filename |-> UnboundName, kg_path |-> UnboundName, base_name |-> UnboundName,
     fails |-> "none", PROCESSED_COUNT |-> 0,
     parsed |-> << >>, written |-> << >>, errors |-> << >>, summary |-> << >>]

batchLocals == <<pipeline, arg, ret, team, env_vars, loader, order, previous>>

\* runner.py lines 23-33: the loop takes the next file; a graph file binds
\* kg_path and base_name, any other file leaves them as they are; the try
\* block follows for both
NextFile ==
    /\ pc = "walk"
    /\ batch.taken < Len(batch.files)
    /\ LET file == batch.files[batch.taken + 1]
       IN  batch' = IF IsGraphFile(file.name)
                    THEN [batch EXCEPT !.taken = @ + 1, !.filename = file.name,
                                       !.kg_path = PathJoin(file.root, file.name),
                                       !.base_name = BaseNameFor(file.root, file.name),
                                       !.fails = file.fails]
                    ELSE [batch EXCEPT !.taken = @ + 1, !.filename = file.name]
    /\ pc' = "try"
    /\ UNCHANGED batchLocals

\* the mutant of Except: the handler prints nothing
ExceptSilent(b, e) == b

\* runner.py lines 55-56: the handler prints the file name and the error
Except(b, e) == [b EXCEPT !.errors = Append(@, [filename |-> b.filename, error |-> e])]

\* runner.py line 37: parse_kg(kg_path); the name is unbound while no graph
\* file was taken yet
TryParseKg ==
    /\ pc = "try"
    /\ IF batch.kg_path = UnboundName
       THEN /\ batch' = Except(batch, "NameError")
            /\ pc' = "walk"
       ELSE IF batch.fails = "parse_kg"
       THEN /\ batch' = Except([batch EXCEPT !.parsed = Append(@, [taken |-> batch.taken, kg_path |-> batch.kg_path])],
                               "parse_kg")
            /\ pc' = "walk"
       ELSE /\ batch' = [batch EXCEPT !.parsed = Append(@, [taken |-> batch.taken, kg_path |-> batch.kg_path])]
            /\ pc' = "crewai"
    /\ UNCHANGED batchLocals

OUTPUT_DIR == <<"o","u","t","p","u","t">>

OutputPath(prefix, base_name) == PathJoin(OUTPUT_DIR, prefix \o base_name \o <<".","p","y">>)

\* runner.py lines 40-44
WriteCrewai ==
    /\ pc = "crewai"
    /\ IF batch.fails = "generate_crewai_code"
       THEN /\ batch' = Except(batch, "generate_crewai_code")
            /\ pc' = "walk"
       ELSE /\ batch' = [batch EXCEPT !.written = Append(@, [path |-> OutputPath(<<"c","r","e","w","a","i","_">>, batch.base_name),
                                                             kg_path |-> batch.kg_path, taken |-> batch.taken,
                                                             by |-> "generate_crewai_code"])]
            /\ pc' = "autogen"
    /\ UNCHANGED batchLocals

\* runner.py lines 47-53
WriteAutogen ==
    /\ pc = "autogen"
    /\ IF batch.fails = "generate_autogen_code"
       THEN /\ batch' = Except(batch, "generate_autogen_code")
            /\ pc' = "walk"
       ELSE /\ batch' = [batch EXCEPT !.written = Append(@, [path |-> OutputPath(<<"a","u","t","o","g","e","n","_">>, batch.base_name),
                                                             kg_path |-> batch.kg_path, taken |-> batch.taken,
                                                             by |-> "generate_autogen_code"]),
                                      !.PROCESSED_COUNT = @ + 1]
            /\ pc' = "walk"
    /\ UNCHANGED batchLocals

\* runner.py line 59
PrintSummary ==
    /\ pc = "walk"
    /\ batch.taken = Len(batch.files)
    /\ batch' = [batch EXCEPT !.summary = <<batch.PROCESSED_COUNT>>]
    /\ pc' = "batch_done"
    /\ UNCHANGED batchLocals

(***************************************************************************)
(* _extract_env_vars.  env_vars holds the entries [key, value] in the      *)
(* order they were added; the keys of the entries are the set seen.        *)
(***************************************************************************)
STR_api_key == <<"a","p","i","_","k","e","y">>

STR_env == <<"e","n","v">>

\* the nodes the text declares as :Config
ConfigNodes == {doc.raw_ttl[i].s : i \in {j \in 1..Len(doc.raw_ttl) : doc.raw_ttl[j].t = "decl"}}

\* every key of a Config node with every value of the node, for the keys
\* that hold "api_key" or "env" in lower case
ENV_CONFIG_QUERY ==
    UNION {{[key |-> k, value |-> v] :
                k \in {x \in ConfigKeys(c) : Contains(LowerStr(x), STR_api_key) \/ Contains(LowerStr(x), STR_env)},
                v \in ConfigValues(c)} : c \in ConfigNodes}

envLocals == <<doc, bools, language_models, tools, agents, tasks, resource_to_producer, workflow_steps,
               task_list, input_variables, arg, ret, team, loader, batch, order, previous>>

\* extract_crew_project line 1029 and lines 966-968
CallExtractEnvVars ==
    /\ pc = "vars_done"
    /\ pc' = "env_vars"
    /\ rows' = ENV_CONFIG_QUERY
    /\ env_vars' = << >>
    /\ UNCHANGED envLocals

\* lines 968-973: the first row of a key gives the entry of the key
ExtractEnvVars ==
    /\ pc = "env_vars"
    /\ IF rows = {}
       THEN /\ pc' = "env_done"
            /\ UNCHANGED <<rows, env_vars>>
       ELSE \E row \in rows :
                LET key == StripStr(row.key)
                IN  /\ rows' = rows \ {row}
                    /\ env_vars' = IF \E i \in 1..Len(env_vars) : env_vars[i].key = key
                                   THEN env_vars
                                   ELSE Append(env_vars, [key |-> key, value |-> StripStr(row.value)])
                    /\ UNCHANGED pc
    /\ UNCHANGED envLocals

(***************************************************************************)
(* _extract_language_models.  language_models is the dictionary models in  *)
(* insertion order.                                                        *)
(***************************************************************************)
LLM_QUERY ==
    UNION {{[lm |-> m, label |-> l, desc |-> d] :
                l \in Opt(Objects(doc.label, m)), d \in Opt(Objects(doc.description, m))} : m \in doc.languageModels}

STR_ollama == <<"o","l","l","a","m","a">>

STR_openai == <<"o","p","e","n","a","i">>

STR_gpt == <<"g","p","t">>

\* [a-z0-9._-]
ModelNameChars == Lower \cup Digit \cup {".", "_", "-"}

\* the last position of the run of characters of cs that starts at j (j - 1: no run)
RECURSIVE RunEnd(_, _, _)
RunEnd(text, j, cs) == IF j <= Len(text) /\ text[j] \in cs THEN RunEnd(text, j + 1, cs) ELSE j - 1

\* ollama\S*\s*[\("']?([a-z0-9._-]+) matched with "ollama" at position i: the
\* triples <<j, k, q>> where \S* ends before j, \s* ends before k and the
\* optional character is taken (q = 1) or not, and group 1 can start
OllamaMatches(text, i) ==
    {m \in ((i + 6)..(Len(text) + 1)) \X ((i + 6)..(Len(text) + 1)) \X {0, 1} :
        /\ m[1] <= m[2]
        /\ \A p \in (i + 6)..(m[1] - 1) : text[p] \notin WhiteSpace
        /\ \A p \in m[1]..(m[2] - 1) : text[p] \in WhiteSpace
        /\ m[3] = 1 => m[2] <= Len(text) /\ text[m[2]] \in {"(", "\"", "'"}
        /\ m[2] + m[3] <= Len(text)
        /\ text[m[2] + m[3]] \in ModelNameChars}

\* the match the regex engine finds first: the longest \S*, then the longest
\* \s*, then the optional character taken
FirstOllamaMatch(text, i) ==
    CHOOSE m \in OllamaMatches(text, i) :
        \A u \in OllamaMatches(text, i) :
            \/ u[1] < m[1]
            \/ u[1] = m[1] /\ u[2] < m[2]
            \/ u[1] = m[1] /\ u[2] = m[2] /\ u[3] <= m[3]

\* lines 584-586: group 1 of the leftmost match, "" for no match
OllamaModelName(text) ==
    LET Starts == {i \in 1..(Len(text) - 5) : SubSeq(text, i, i + 5) = STR_ollama /\ OllamaMatches(text, i) # {}}
    IN  IF Starts = {} THEN << >>
        ELSE LET i == CHOOSE i \in Starts : \A j \in Starts : i <= j
                 m == FirstOllamaMatch(text, i)
             IN  SubSeq(text, m[2] + m[3], RunEnd(text, m[2] + m[3], ModelNameChars))

\* lines 589-591: (gpt-[a-z0-9._-]+), group 1 of the leftmost match
GptModelName(text) ==
    LET Starts == {i \in 1..(Len(text) - 4) : SubSeq(text, i, i + 3) = STR_gpt \o <<"-">> /\ text[i + 4] \in ModelNameChars}
    IN  IF Starts = {} THEN << >>
        ELSE LET i == CHOOSE i \in Starts : \A j \in Starts : i <= j
             IN  SubSeq(text, i, RunEnd(text, i + 4, ModelNameChars))

\* lines 574-599 for one row
NewLanguageModel(row) ==
    LET label == StripStr(row.label)
        desc  == StripStr(row.desc)
        text  == LowerStr(label \o <<" ">> \o desc)
    IN  [iri |-> StripStr(row.lm),
         name |-> label,
         description |-> desc,
         provider |-> IF Contains(text, STR_ollama) THEN STR_ollama
                      ELSE IF Contains(text, STR_openai) \/ Contains(text, STR_gpt) THEN STR_openai
                      ELSE << >>,
         model_name |-> IF Contains(text, STR_ollama) THEN OllamaModelName(text)
                        ELSE IF Contains(text, STR_openai) \/ Contains(text, STR_gpt) THEN GptModelName(text)
                        ELSE << >>]

lmLocals == <<doc, bools, tools, agents, tasks, resource_to_producer, workflow_steps, task_list,
              input_variables, arg, ret, extra>>

\* extract_crew_project line 998 and line 572
CallExtractLanguageModels ==
    /\ pc = "team_done"
    /\ pc' = "language_models"
    /\ rows' = LLM_QUERY
    /\ language_models' = << >>
    /\ UNCHANGED lmLocals

\* lines 573-601: every row writes the entry of its IRI; the function returns
ExtractLanguageModels ==
    /\ pc = "language_models"
    /\ IF rows = {}
       THEN /\ pc' = "lm_done"
            /\ UNCHANGED <<rows, language_models>>
       ELSE \E row \in rows :
                LET iri == StripStr(row.lm)
                IN  /\ rows' = rows \ {row}
                    /\ language_models' = IF HasIri(language_models, iri)
                                          THEN [language_models EXCEPT ![IndexOfIri(language_models, iri)] = NewLanguageModel(row)]
                                          ELSE Append(language_models, NewLanguageModel(row))
                    /\ UNCHANGED pc
    /\ UNCHANGED lmLocals

\* extract_crew_project line 1001 and line 606
CallExtractTools ==
    /\ pc = "lm_done"
    /\ pc' = "tools_primary"
    /\ rows' = TOOLS_QUERY
    /\ tools' = << >>
    /\ UNCHANGED <<doc, bools, language_models, agents, tasks, resource_to_producer, workflow_steps, task_list,
                   input_variables, arg, ret, extra>>

(***************************************************************************)
(* build_env_example and the two env files of generate_project             *)
(* (src/src/crewai/generator.py).  entries is the dictionary of the        *)
(* function in insertion order, a sequence of [key, value].  arg holds the *)
(* projects rendered, and ret, for each of them, the entries and the two   *)
(* files written.                                                          *)
(***************************************************************************)
\* _TOOL_ENV_VARS, in the order of the dictionary
TOOL_ENV_VARS ==
    << [k |-> <<"S","e","r","p","e","r","D","e","v","T","o","o","l">>, v |-> <<<<"S","E","R","P","E","R","_","A","P","I","_","K","E","Y">>>>],
       [k |-> <<"B","r","o","w","s","e","r","b","a","s","e","L","o","a","d","T","o","o","l">>, v |-> <<<<"B","R","O","W","S","E","R","B","A","S","E","_","A","P","I","_","K","E","Y">>>>],
       [k |-> <<"S","E","C","T","o","o","l","s">>, v |-> <<<<"S","E","C","_","A","P","I","_","A","P","I","_","K","E","Y">>>>],
       [k |-> <<"S","c","r","a","p","e","W","e","b","s","i","t","e","T","o","o","l">>, v |-> << >>],
       [k |-> <<"W","e","b","s","i","t","e","S","e","a","r","c","h","T","o","o","l">>, v |-> << >>],
       [k |-> <<"F","i","l","e","R","e","a","d","T","o","o","l">>, v |-> << >>],
       [k |-> <<"T","X","T","S","e","a","r","c","h","T","o","o","l">>, v |-> << >>],
       [k |-> <<"D","i","r","e","c","t","o","r","y","R","e","a","d","T","o","o","l">>, v |-> << >>],
       [k |-> <<"D","O","C","X","S","e","a","r","c","h","T","o","o","l">>, v |-> << >>],
       [k |-> <<"P","D","F","S","e","a","r","c","h","T","o","o","l">>, v |-> << >>],
       [k |-> <<"C","S","V","S","e","a","r","c","h","T","o","o","l">>, v |-> << >>],
       [k |-> <<"J","S","O","N","S","e","a","r","c","h","T","o","o","l">>, v |-> << >>],
       [k |-> <<"M","D","X","S","e","a","r","c","h","T","o","o","l">>, v |-> << >>],
       [k |-> <<"Y","o","u","t","u","b","e","V","i","d","e","o","S","e","a","r","c","h","T","o","o","l">>, v |-> << >>] >>

AZURE_VARS == <<<<"A","Z","U","R","E","_","O","P","E","N","A","I","_","K","E","Y">>, <<"A","Z","U","R","E","_","O","P","E","N","A","I","_","E","N","D","P","O","I","N","T">>, <<"A","Z","U","R","E","_","O","P","E","N","A","I","_","D","E","P","L","O","Y","M","E","N","T">>, <<"A","Z","U","R","E","_","O","P","E","N","A","I","_","V","E","R","S","I","O","N">>>>

OPENAI_API_KEY == <<"O","P","E","N","A","I","_","A","P","I","_","K","E","Y">>

\* _LLM_PROVIDER_ENV_VARS, in the order of the dictionary
LLM_PROVIDER_ENV_VARS ==
    << [k |-> STR_openai, v |-> <<OPENAI_API_KEY>>],
       [k |-> <<"a","z","u","r","e">>, v |-> AZURE_VARS],
       [k |-> <<"a","z","u","r","e","o","p","e","n","a","i">>, v |-> AZURE_VARS],
       [k |-> <<"a","n","t","h","r","o","p","i","c">>, v |-> <<<<"A","N","T","H","R","O","P","I","C","_","A","P","I","_","K","E","Y">>>>],
       [k |-> STR_ollama, v |-> << >>],
       [k |-> <<"n","v","i","d","i","a">>, v |-> <<<<"N","V","I","D","I","A","_","A","P","I","_","K","E","Y">>>>],
       [k |-> <<"n","v","i","d","i","a","_","n","i","m">>, v |-> <<<<"N","V","I","D","I","A","_","A","P","I","_","K","E","Y">>>>],
       [k |-> <<"c","o","h","e","r","e">>, v |-> <<<<"C","O","H","E","R","E","_","A","P","I","_","K","E","Y">>>>],
       [k |-> <<"g","e","m","i","n","i">>, v |-> <<<<"G","E","M","I","N","I","_","A","P","I","_","K","E","Y">>>>],
       [k |-> <<"g","r","o","q">>, v |-> <<<<"G","R","O","Q","_","A","P","I","_","K","E","Y">>>>],
       [k |-> <<"m","i","s","t","r","a","l">>, v |-> <<<<"M","I","S","T","R","A","L","_","A","P","I","_","K","E","Y">>>>],
       [k |-> <<"h","u","g","g","i","n","g","f","a","c","e">>, v |-> <<<<"H","U","G","G","I","N","G","F","A","C","E","H","U","B","_","A","P","I","_","T","O","K","E","N">>>>] >>

\* entries[key] = value: a key keeps its place, a new key goes last
EntryPut(entries, key, value) ==
    IF \E i \in 1..Len(entries) : entries[i].key = key
    THEN [i \in 1..Len(entries) |-> IF entries[i].key = key THEN [key |-> key, value |-> value] ELSE entries[i]]
    ELSE Append(entries, [key |-> key, value |-> value])

\* entries.pop(key, None)
EntryPop(entries, key) == SelectSeq(entries, LAMBDA e : e.key # key)

\* f"your_{var.lower()}_here"
Placeholder(var) == <<"y","o","u","r","_">> \o LowerStr(var) \o <<"_","h","e","r","e">>

\* for var in env_vars: entries[var] = f"your_{var.lower()}_here"
RECURSIVE PutPlaceholders(_, _)
PutPlaceholders(entries, env_names) ==
    IF env_names = << >> THEN entries
    ELSE PutPlaceholders(EntryPut(entries, Head(env_names), Placeholder(Head(env_names))), Tail(env_names))

\* str.replace(c, "") for each c of cs
WithoutChars(s, cs) == SelectSeq(s, LAMBDA c : c \notin cs)

\* agent.llm.provider, "" for an agent without a language model
ProviderOfAgent(project, agent) ==
    IF agent.llm = << >> THEN << >>
    ELSE project.language_models[IndexOfIri(project.language_models, agent.llm[1])].provider

\* lines 287-296 for one agent
ProviderEntries(entries, provider) ==
    LET provider_key == WithoutChars(LowerStr(provider), {"-", "_"})
        matches == {i \in 1..Len(LLM_PROVIDER_ENV_VARS) :
                        Contains(provider_key, WithoutChars(LLM_PROVIDER_ENV_VARS[i].k, {"_"}))}
    IN  IF provider = << >> \/ matches = {} THEN entries
        ELSE LET i == CHOOSE m \in matches : \A n \in matches : m <= n
             IN  PutPlaceholders(IF LLM_PROVIDER_ENV_VARS[i].k # STR_openai
                                 THEN EntryPop(entries, OPENAI_API_KEY) ELSE entries,
                                 LLM_PROVIDER_ENV_VARS[i].v)

\* lines 286-296: the loop over project.agents, from agent i on
RECURSIVE ProviderKeys(_, _, _)
ProviderKeys(project, entries, i) ==
    IF i > Len(project.agents) THEN entries
    ELSE ProviderKeys(project, ProviderEntries(entries, ProviderOfAgent(project, project.agents[i])), i + 1)

\* lines 300-307: the exact match first, then the first case-insensitive one
MatchedToolVars(class_key) ==
    LET exact == {i \in 1..Len(TOOL_ENV_VARS) : TOOL_ENV_VARS[i].k = class_key}
        loose == {i \in 1..Len(TOOL_ENV_VARS) : LowerStr(TOOL_ENV_VARS[i].k) = LowerStr(class_key)}
    IN  IF exact # {} THEN TOOL_ENV_VARS[CHOOSE i \in exact : TRUE].v
        ELSE IF loose # {} THEN TOOL_ENV_VARS[CHOOSE m \in loose : \A n \in loose : m <= n].v
        ELSE << >>

\* lines 299-310: the loop over project.tools, from tool i on
RECURSIVE ToolKeys(_, _, _)
ToolKeys(project, entries, i) ==
    IF i > Len(project.tools) THEN entries
    ELSE ToolKeys(project, PutPlaceholders(entries, MatchedToolVars(project.tools[i].class_name)), i + 1)

\* lines 313-314: for cfg in project.env_vars: entries[cfg.key] = cfg.value
RECURSIVE MergeEnvVars(_, _)
MergeEnvVars(entries, cfgs) ==
    IF cfgs = << >> THEN entries
    ELSE MergeEnvVars(EntryPut(entries, Head(cfgs).key, Head(cfgs).value), Tail(cfgs))

\* line 324
llm_vars ==
    {OPENAI_API_KEY, <<"A","N","T","H","R","O","P","I","C","_","A","P","I","_","K","E","Y">>, <<"A","Z","U","R","E","_","O","P","E","N","A","I","_","K","E","Y">>, <<"A","Z","U","R","E","_","O","P","E","N","A","I","_","E","N","D","P","O","I","N","T">>, <<"A","Z","U","R","E","_","O","P","E","N","A","I","_","D","E","P","L","O","Y","M","E","N","T">>,
     <<"A","Z","U","R","E","_","O","P","E","N","A","I","_","V","E","R","S","I","O","N">>, <<"N","V","I","D","I","A","_","A","P","I","_","K","E","Y">>, <<"C","O","H","E","R","E","_","A","P","I","_","K","E","Y">>, <<"G","E","M","I","N","I","_","A","P","I","_","K","E","Y">>, <<"G","R","O","Q","_","A","P","I","_","K","E","Y">>,
     <<"M","I","S","T","R","A","L","_","A","P","I","_","K","E","Y">>, <<"H","U","G","G","I","N","G","F","A","C","E","H","U","B","_","A","P","I","_","T","O","K","E","N">>}

\* f"{k}={v}" for the entries
KeyValueLines(entries) == [i \in 1..Len(entries) |-> entries[i].key \o <<"=">> \o entries[i].value]

\* a section of the file: its title, its lines and an empty line; nothing for no entries
Section(heading, entries) ==
    IF entries = << >> THEN << >> ELSE <<heading>> \o KeyValueLines(entries) \o << << >> >>

\* "\n".join(lines)
RECURSIVE JoinLines(_)
JoinLines(lines) ==
    IF lines = << >> THEN << >>
    ELSE IF Len(lines) = 1 THEN Head(lines)
    ELSE Head(lines) \o <<"\n">> \o JoinLines(Tail(lines))

\* lines 316-343: the content of the file (the dash of the first line is written as a hyphen)
EnvExampleContent(entries) ==
    JoinLines(<< <<"#"," ",".","e","n","v",".","e","x","a","m","p","l","e"," ","-"," ","c","o","p","y"," ","t","o"," ",".","e","n","v"," ","a","n","d"," ","f","i","l","l"," ","i","n"," ","y","o","u","r"," ","a","c","t","u","a","l"," ","k","e","y","s">>,
                 <<"#"," ","N","e","v","e","r"," ","c","o","m","m","i","t"," ","t","h","e"," ","r","e","a","l"," ",".","e","n","v"," ","f","i","l","e"," ","t","o"," ","v","e","r","s","i","o","n"," ","c","o","n","t","r","o","l",".">>,
                 << >> >>
              \o Section(<<"#"," ","L","L","M"," ","A","P","I"," ","K","e","y","s">>, SelectSeq(entries, LAMBDA e : e.key \in llm_vars))
              \o Section(<<"#"," ","T","o","o","l"," ","A","P","I"," ","K","e","y","s">>, SelectSeq(entries, LAMBDA e : e.key \notin llm_vars)))

\* generate_project, lines 499-503: the .env file, written only for a project with env vars
NoFile == <<"<no file>">>

RECURSIVE EnvFileContent(_)
EnvFileContent(cfgs) ==
    IF cfgs = << >> THEN << >>
    ELSE Head(cfgs).key \o <<"=">> \o Head(cfgs).value \o <<"\n">> \o EnvFileContent(Tail(cfgs))

\* the state of one rendering
NewRendering == [entries |-> << >>, env |-> NoFile, env_example |-> NoFile]

generatorLocals == <<pipeline, arg, extra>>

\* generate_project, lines 499-503
WriteEnv ==
    /\ pc = "write_env"
    /\ pc' = "env_example_default"
    /\ ret' = [r \in DOMAIN ret |->
                  [ret[r] EXCEPT !.env = IF arg[r].env_vars # << >> THEN EnvFileContent(arg[r].env_vars) ELSE @]]
    /\ UNCHANGED generatorLocals

\* build_env_example, lines 280-283
EnvExampleDefault ==
    /\ pc = "env_example_default"
    /\ pc' = "env_example_providers"
    /\ ret' = [r \in DOMAIN ret |-> [ret[r] EXCEPT !.entries = EntryPut(<< >>, OPENAI_API_KEY, Placeholder(OPENAI_API_KEY))]]
    /\ UNCHANGED generatorLocals

\* lines 285-296
EnvExampleProviders ==
    /\ pc = "env_example_providers"
    /\ pc' = "env_example_tools"
    /\ ret' = [r \in DOMAIN ret |-> [ret[r] EXCEPT !.entries = ProviderKeys(arg[r], @, 1)]]
    /\ UNCHANGED generatorLocals

\* lines 298-310
EnvExampleTools ==
    /\ pc = "env_example_tools"
    /\ pc' = "env_example_merge"
    /\ ret' = [r \in DOMAIN ret |-> [ret[r] EXCEPT !.entries = ToolKeys(arg[r], @, 1)]]
    /\ UNCHANGED generatorLocals

\* lines 312-314
EnvExampleMerge ==
    /\ pc = "env_example_merge"
    /\ pc' = "env_example_build"
    /\ ret' = [r \in DOMAIN ret |-> [ret[r] EXCEPT !.entries = MergeEnvVars(@, arg[r].env_vars)]]
    /\ UNCHANGED generatorLocals

\* lines 316-343, and generate_project, lines 505-508
EnvExampleBuild ==
    /\ pc = "env_example_build"
    /\ pc' = "env_example_written"
    /\ ret' = [r \in DOMAIN ret |-> [ret[r] EXCEPT !.env_example = EnvExampleContent(ret[r].entries)]]
    /\ UNCHANGED generatorLocals

(***************************************************************************)
(* The variable names of the as-is generators (src/src/mapper_crewai.py,   *)
(* src/src/mapper_autogen.py).  arg holds the generator, the kind of the   *)
(* entity and its id, str(IRI) as parse_kg stores it; ret the name emitted *)
(* into the script.                                                        *)
(***************************************************************************)
\* id.split("#")[-1].lower()
AsIsVar(id) == LowerStr(AfterLast(id, "#"))

asIsLocals == <<pipeline, arg, extra>>

\* mapper_crewai.py lines 34-36 and 53-54: agent_var
GenerateCrewaiAgent ==
    /\ pc = "generate"
    /\ arg.generator = "crewai" /\ arg.entity = "agent"
    /\ ret' = AsIsVar(arg.id)
    /\ pc' = "generated"
    /\ UNCHANGED asIsLocals

\* mapper_crewai.py lines 39-41 and 62-64: tool_var
GenerateCrewaiTool ==
    /\ pc = "generate"
    /\ arg.generator = "crewai" /\ arg.entity = "tool"
    /\ ret' = AsIsVar(arg.id)
    /\ pc' = "generated"
    /\ UNCHANGED asIsLocals

\* mapper_crewai.py lines 84-85: task_var
GenerateCrewaiTask ==
    /\ pc = "generate"
    /\ arg.generator = "crewai" /\ arg.entity = "task"
    /\ ret' = AsIsVar(arg.id)
    /\ pc' = "generated"
    /\ UNCHANGED asIsLocals

\* mapper_autogen.py lines 48-52: agent_name and agent_var
GenerateAutogenAgent ==
    /\ pc = "generate"
    /\ arg.generator = "autogen" /\ arg.entity = "agent"
    /\ ret' = AsIsVar(arg.id)
    /\ pc' = "generated"
    /\ UNCHANGED asIsLocals

(***************************************************************************)
(* The conversation flow of the as-is AutoGen generator along the          *)
(* interactsWith links (src/src/mapper_autogen.py, generate_autogen_code). *)
(* arg holds parsed_data["agents"], records of an id and the interacts_with*)
(* list of ids; ret the locals agent_vars, agent_interactions, visited,    *)
(* current and the chats emitted, pairs of a sender and a target.          *)
(***************************************************************************)
NoAgent == <<"no", "agent">>

MANAGER == <<"m", "a", "n", "a", "g", "e", "r">>

\* lines 60-64: interact_vars
InteractVars(interacts_with) == [i \in 1..Len(interacts_with) |-> AsIsVar(interacts_with[i])]

\* lines 47-66: agent_vars and agent_interactions after the agents up to n
RECURSIVE AgentInteractions(_, _)
AgentInteractions(ags, n) ==
    IF n = 0 THEN EmptyDict
    ELSE LET before == AgentInteractions(ags, n - 1)
             interact_vars == InteractVars(ags[n].interacts_with)
         IN IF interact_vars # << >>
            THEN DictSet(before, AsIsVar(ags[n].id), interact_vars)
            ELSE before

AgentVars(ags) == [i \in 1..Len(ags) |-> AsIsVar(ags[i].id)]

\* line 155, the mutated condition: every listed agent is taken
IsNextAgentUnvisitedOrNot(next_agent, visited, agent_vars) == InSeq(next_agent, agent_vars)

\* line 155: if next_agent not in visited and next_agent in agent_vars
IsNextAgent(next_agent, visited, agent_vars) ==
    next_agent \notin visited /\ InSeq(next_agent, agent_vars)

\* lines 154-162: the position in next_agents the for loop breaks at, 0 when
\* it runs to its else
FirstNextAgent(next_agents, visited, agent_vars) ==
    LET hits == {i \in 1..Len(next_agents) : IsNextAgent(next_agents[i], visited, agent_vars)}
    IN IF hits = {} THEN 0 ELSE CHOOSE i \in hits : \A j \in hits : i <= j

chainLocals == <<pipeline, arg, extra>>

\* lines 47-66: the loop over the agents
GenerateAgents ==
    /\ pc = "chain_agents"
    /\ ret' = [agent_vars |-> AgentVars(arg), agent_interactions |-> AgentInteractions(arg, Len(arg)),
               visited |-> {}, current |-> NoAgent, chat_flow |-> << >>]
    /\ pc' = "chain_flow"
    /\ UNCHANGED chainLocals

\* lines 138-151, with no workflow steps: the manager opens with the first agent
StartChain ==
    /\ pc = "chain_flow"
    /\ DOMAIN ret.agent_interactions # {}
    /\ ret.agent_vars # << >>
    /\ ret' = [ret EXCEPT !.chat_flow = <<[sender |-> MANAGER, target |-> ret.agent_vars[1]]>>,
                          !.visited = {ret.agent_vars[1]},
                          !.current = ret.agent_vars[1]]
    /\ pc' = "chain_loop"
    /\ UNCHANGED chainLocals

\* line 138 false: the flow is not taken from the interactsWith links
NoChain ==
    /\ pc = "chain_flow"
    /\ DOMAIN ret.agent_interactions = {}
    /\ pc' = "chain_done"
    /\ UNCHANGED <<ret, chainLocals>>

\* lines 152-160: one round of the while loop that hands over
FollowChain ==
    /\ pc = "chain_loop"
    /\ ret.current \in DOMAIN ret.agent_interactions
    /\ Len(ret.chat_flow) < MaxFlow
    /\ LET next_agents == ret.agent_interactions[ret.current]
           i == FirstNextAgent(next_agents, ret.visited, ret.agent_vars)
       IN /\ i # 0
          /\ ret' = [ret EXCEPT !.chat_flow = Append(@, [sender |-> ret.current, target |-> next_agents[i]]),
                                !.visited = @ \cup {next_agents[i]},
                                !.current = next_agents[i]]
    /\ pc' = "chain_loop"
    /\ UNCHANGED chainLocals

\* lines 152 and 161-162: the while condition fails or the for loop runs to
\* its else
EndChain ==
    /\ pc = "chain_loop"
    /\ \/ ret.current \notin DOMAIN ret.agent_interactions
       \/ /\ ret.current \in DOMAIN ret.agent_interactions
          /\ FirstNextAgent(ret.agent_interactions[ret.current], ret.visited, ret.agent_vars) = 0
    /\ pc' = "chain_done"
    /\ UNCHANGED <<ret, chainLocals>>

(***************************************************************************)
(* The idle values of the variables a specification does not use.          *)
(***************************************************************************)
NoDoc == [kind |-> "none"]

NoCall == <<"none">>

NoTeam == [kind |-> "none"]

NoLoad == [kind |-> "none"]

NoBatch == [kind |-> "none"]

NoProject == [kind |-> "none"]

IdleExtra ==
    /\ team = NoTeam
    /\ env_vars = << >>
    /\ loader = NoLoad
    /\ batch = NoBatch
    /\ order = << >>
    /\ previous = NoProject

IdlePipeline ==
    /\ doc = NoDoc
    /\ rows = {}
    /\ bools = {}
    /\ language_models = << >>
    /\ tools = << >>
    /\ resource_to_producer = << >>
    /\ agents = << >>
    /\ tasks = << >>
    /\ workflow_steps = << >>
    /\ task_list = << >>
    /\ input_variables = << >>

(***************************************************************************)
(* SpecSafeVar: _safe_var applied to every short string over an alphabet   *)
(* that has a letter of each case, a digit, an underscore, a separator and *)
(* the two IRI delimiters, and to the two labels of the specification.     *)
(***************************************************************************)
SafeVarAlphabet == {"a", "B", "1", "_", "-", "/", "#"}

SeniorEngineerAgent == <<"S","e","n","i","o","r","E","n","g","i","n","e","e","r","A","g","e","n","t">>

Label123Tool == <<"1","2","3","T","o","o","l">>

SafeVarInputs == SeqsUpTo(SafeVarAlphabet, MaxLen) \cup {SeniorEngineerAgent, Label123Tool}

InitSafeVar ==
    /\ pc = "call"
    /\ arg \in SafeVarInputs
    /\ ret = NoCall
    /\ IdleExtra
    /\ IdlePipeline

CallSafeVar ==
    /\ pc = "call"
    /\ ret' = SafeVar(arg)
    /\ pc' = "returned"
    /\ UNCHANGED <<pipeline, arg, extra>>

NextSafeVar == CallSafeVar

SpecSafeVar == InitSafeVar /\ [][NextSafeVar]_vars

(***************************************************************************)
(* C7.  Identifier normalization.                                          *)
(***************************************************************************)
\* the longest suffix of s that holds neither "/" nor "#"
LocalName(s) == LET k == CHOOSE k \in 0..Len(s) :
                             /\ \A i \in (k+1)..Len(s) : s[i] \notin {"/", "#"}
                             /\ (k > 0 => s[k] \in {"/", "#"})
                IN  Drop(s, k)

\* a word starts at position i of s: after a non-alphanumeric character, at a
\* lowercase-or-digit -> uppercase boundary, or at the last capital of a run of
\* capitals that a lowercase letter follows
WordStartsAt(s, i) ==
    \/ s[i-1] \notin AlNum
    \/ s[i-1] \in (Lower \cup Digit) /\ s[i] \in Upper
    \/ s[i-1] \in Upper /\ s[i] \in Upper /\ i < Len(s) /\ s[i+1] \in Lower

\* the alphanumeric characters of s from position i on, lowercased, with one
\* underscore before each word but the first (started: a character was emitted)
RECURSIVE SnakeWords(_, _, _)
SnakeWords(s, i, started) ==
    IF i > Len(s) THEN << >>
    ELSE IF s[i] \notin AlNum THEN SnakeWords(s, i + 1, started)
         ELSE (IF started /\ WordStartsAt(s, i) THEN <<"_">> ELSE << >>)
              \o <<ToLower(s[i])>> \o SnakeWords(s, i + 1, TRUE)

Normalized(s) ==
    LET w == SnakeWords(s, 1, FALSE)
    IN  IF w = << >> THEN UNNAMED
        ELSE IF w[1] \in Digit THEN <<"_">> \o w ELSE w

\* C7 as stated: for every raw label or IRI fragment _safe_var returns the input
\* itself with camel-case boundaries split, every run of non-alphanumeric
\* characters replaced by one underscore, leading and trailing underscores
\* stripped, lowercased, digit-prefixed with an underscore, "unnamed" if empty.
C7_SafeVarNormalizesInput == pc = "returned" => ret = Normalized(arg)

\* C7 amended: _safe_var returns that normal form of the part of its input that
\* follows the last "/" and the last "#" (the IRI local name), so a label that
\* holds "/" or "#" loses everything up to that character; "SeniorEngineerAgent"
\* gives "senior_engineer_agent" and "123Tool" an identifier that starts with "_".
C7_SafeVarNormalizesLocalName ==
    pc = "returned" =>
        /\ ret = Normalized(LocalName(arg))
        /\ arg = SeniorEngineerAgent =>
               ret = <<"s","e","n","i","o","r","_","e","n","g","i","n","e","e","r","_","a","g","e","n","t">>
        /\ arg = Label123Tool => ret[1] = "_"

\* C7 witness: a label with a "/" before a camel-case local name was normalized
C7_Witness == pc = "returned" /\ arg = <<"B", "/", "a", "B">> /\ ret = <<"a", "_", "b">>

(***************************************************************************)
(* SpecParseKv: _parse_config_kv_from_ttl applied to every short text over *)
(* two Config names, two keys and two values.                              *)
(***************************************************************************)
CFG1 == <<"c","f","g","1">>

CFG2 == <<"c","f","g","2">>

ConfigNames == {CFG1, CFG2}

STR_Analyst == <<"A","n","a","l","y","s","t">>

STR_FindTrends == <<"F","i","n","d"," ","t","r","e","n","d","s">>

KvKeys == {STR_role, STR_goal}

KvValues == {STR_Analyst, STR_FindTrends}

TtlLexemes ==
    [t : {"decl"}, s : ConfigNames] \cup [t : {"key"}, s : KvKeys] \cup [t : {"val"}, s : KvValues]

InitParseKv ==
    /\ pc = "call"
    /\ arg \in SeqsUpTo(TtlLexemes, MaxTokens)
    /\ ret = NoCall
    /\ IdleExtra
    /\ IdlePipeline

CallParseKv ==
    /\ pc = "call"
    /\ ret' = ParseConfigKvFromTtl(arg)
    /\ pc' = "returned"
    /\ UNCHANGED <<pipeline, arg, extra>>

NextParseKv == CallParseKv

SpecParseKv == InitParseKv /\ [][NextParseKv]_vars

(***************************************************************************)
(* C3.  Raw-text recovery of the (key, value) pairs of each Config node.   *)
(***************************************************************************)
\* the pairs returned under local name n (no entry: no pairs)
PairsOf(result, n) == IF n \in DOMAIN result THEN result[n] ELSE << >>

\* the positions of the text where a `:configKey "k" ; :configValue "v"` unit starts
UnitPositions(raw) == {i \in 1..(Len(raw) - 1) : raw[i].t = "key" /\ raw[i+1].t = "val"}

DeclPositions(raw) == {i \in 1..Len(raw) : raw[i].t = "decl"}

\* the pairs of the units at the positions P, in text order
RECURSIVE PairsAt(_, _)
PairsAt(raw, P) ==
    IF P = {} THEN << >>
    ELSE LET i == CHOOSE i \in P : \A j \in P : i <= j
         IN  << <<raw[i].s, raw[i+1].s>> >> \o PairsAt(raw, P \ {i})

\* the units after declaration d and before the next declaration
SegmentOf(raw, d) ==
    {i \in UnitPositions(raw) : i > d /\ \A e \in DeclPositions(raw) : ~(d < e /\ e < i)}

\* C3 as stated: for each Config declaration the function returns exactly the
\* pairs of the units between that declaration and the next one, in text order.
C3_PairsPerDeclaration ==
    pc = "returned" =>
        \A d \in DeclPositions(arg) : PairsOf(ret, arg[d].s) = PairsAt(arg, SegmentOf(arg, d))

\* C3 amended: the result is keyed by local name.  Under each name it holds
\* exactly the pairs of the units whose nearest preceding Config declaration
\* carries that name, in text order (the segments of two declarations of one
\* name are merged); each pair is the key and the value of one unit; a unit
\* that precedes every declaration is under no name; role goes with Analyst.
C3_PairsPerLocalName ==
    pc = "returned" =>
        /\ DOMAIN ret \subseteq {arg[d].s : d \in DeclPositions(arg)}
        /\ \A n \in ConfigNames :
               PairsOf(ret, n) =
                   PairsAt(arg, UNION {SegmentOf(arg, d) : d \in {e \in DeclPositions(arg) : arg[e].s = n}})
        /\ arg = << [t |-> "decl", s |-> CFG1], [t |-> "key", s |-> STR_role], [t |-> "val", s |-> STR_Analyst],
                    [t |-> "key", s |-> STR_goal], [t |-> "val", s |-> STR_FindTrends] >>
               => ret = [n \in {CFG1} |-> << <<STR_role, STR_Analyst>>, <<STR_goal, STR_FindTrends>> >>]

\* C3 witness: the two units of one declaration were recovered with their own values
C3_Witness ==
    /\ pc = "returned"
    /\ arg = << [t |-> "decl", s |-> CFG1], [t |-> "key", s |-> STR_role], [t |-> "val", s |-> STR_Analyst],
                [t |-> "key", s |-> STR_goal], [t |-> "val", s |-> STR_FindTrends] >>
    /\ ret = [n \in {CFG1} |-> << <<STR_role, STR_Analyst>>, <<STR_goal, STR_FindTrends>> >>]

(***************************************************************************)
(* SpecAgents: _extract_agents on a document with at most one agent, which *)
(* has a role or none or a blank one, a Goal node or none, a prompt or     *)
(* none, a description or none, and one Config node with up to MaxPairs    *)
(* pairs.  No tool and no language model exists.                           *)
(***************************************************************************)
AGENT1 == <<"o","#","D","e","v">>

PROMPT1 == <<"o","#","P","1">>

\* the pairs of the Config node: about the text fields, and about the flags
TextPairs == { <<STR_role, <<"D","e","v">>>>, <<STR_goal, <<"S","h","i","p">>>>, <<STR_backstory, <<"O","l","d">>>> }

FlagPairs ==
    { <<STR_allow_delegation, <<"F","a","l","s","e">>>>, <<STR_allow_delegation, <<"y","e","s">>>>,
      <<STR_verbose, <<"T","r","u","e">>>>, <<STR_verbose, <<"m","a","y","b","e">>>>, <<STR_role, <<"D","e","v">>>> }

\* the text of a Config node with the pairs ps
RECURSIVE PairLexemes(_)
PairLexemes(ps) ==
    IF ps = << >> THEN << >>
    ELSE << [t |-> "key", s |-> Head(ps)[1]], [t |-> "val", s |-> Head(ps)[2]] >> \o PairLexemes(Tail(ps))

ConfigText(name, ps) == << [t |-> "decl", s |-> name] >> \o PairLexemes(ps)

DirectRoles == {<<"L","e","a","d">>, <<" ">>}

GoalDescriptions == {<<"W","i","n">>}

PromptInstructions == {<<"B","e"," ","k","i","n","d">>}

FlagInstructions == {<<"v","e","r","b","o","s","e",":"," ","y","e","s",".">>}

AgentDescriptions == {<<"x"," ","A","l","l","o","w","D","e","l","e","g","a","t","i","o","n"," ","="," ","n","o",",">>, STR_verbose}

\* a comment that completes a key pattern when it is joined to a description that ends with the key
AgentComments == {<<"="," ","n","o">>}

\* at most one value of S
AtMostOne(S) == {{}} \cup {{x} : x \in S}

\* the document of one agent with one Config node and at most one prompt
AgentDoc(roles, goals, instrs, descs, comments, ps) ==
    [EmptyDoc EXCEPT
        !.llmAgents = {AGENT1},
        !.agentRole = {<<AGENT1, r>> : r \in roles},
        !.hasAgentGoal = {<<AGENT1, d>> : d \in goals},
        !.hasAgentConfig = {<<AGENT1, CFG1>>},
        !.raw_ttl = ConfigText(CFG1, ps),
        !.agentPrompt = {<<AGENT1, PROMPT1>> : i \in instrs},
        !.prompts = {PROMPT1 : i \in instrs},
        !.promptInstruction = {<<PROMPT1, i>> : i \in instrs},
        !.description = {<<AGENT1, d>> : d \in descs},
        !.comment = {<<AGENT1, c>> : c \in comments}]

\* the documents that vary the sources of role, goal and backstory
TextFieldDocs ==
    {AgentDoc(roles, goals, instrs, {}, {}, ps) :
         roles \in AtMostOne(DirectRoles), goals \in AtMostOne(GoalDescriptions),
         instrs \in AtMostOne(PromptInstructions), ps \in SeqsUpTo(TextPairs, MaxPairs)}

\* the documents that vary the sources of allow_delegation and verbose
FlagDocs ==
    {AgentDoc({}, {}, instrs, descs, comments, ps) :
         instrs \in AtMostOne(FlagInstructions), descs \in AtMostOne(AgentDescriptions),
         comments \in AtMostOne(AgentComments),
         ps \in SeqsUpTo(FlagPairs, MaxPairs)}

\* and the document with no agent
AgentDocs == TextFieldDocs \cup FlagDocs \cup {EmptyDoc}

InitAgents ==
    /\ doc \in AgentDocs
    /\ pc = "agents_primary"
    /\ rows = AGENTS_QUERY
    /\ bools = {}
    /\ language_models = << >>
    /\ tools = << >>
    /\ agents = << >>
    /\ tasks = << >>
    /\ resource_to_producer = << >>
    /\ workflow_steps = << >>
    /\ task_list = << >>
    /\ input_variables = << >>
    /\ arg = NoCall
    /\ ret = NoCall
    /\ IdleExtra

NextAgents ==
    \/ ExtractAgentsPrimary
    \/ ExtractAgentsGoal
    \/ ExtractAgentsConfig
    \/ ExtractAgentsBackstory
    \/ ExtractAgentsTools
    \/ ExtractAgentsLlm
    \/ ExtractAgentsDelegation
    \/ ExtractAgentsVerbose
    \/ ExtractAgentsRawTtl
    \/ ExtractAgentsText
    \/ ExtractAgentsDefaults

SpecAgents == InitAgents /\ [][NextAgents]_vars

(***************************************************************************)
(* C1.  The final defaults of the agent records.                           *)
(***************************************************************************)
\* C1: after agent extraction every Agent record has a non-empty role, goal
\* and backstory; the defaults step turns an empty role into "LLM Agent", an
\* empty goal into the role and an empty backstory into "You are a {role}.".
C1_AgentDefaults ==
    /\ [](pc = "agents_done" =>
              \A i \in 1..Len(agents) :
                  agents[i].role # << >> /\ agents[i].goal # << >> /\ agents[i].backstory # << >>)
    /\ [][pc = "agents_defaults" =>
              /\ Len(agents') = Len(agents)
              /\ \A i \in 1..Len(agents) :
                     /\ agents[i].role = << >> => agents'[i].role = <<"L","L","M"," ","A","g","e","n","t">>
                     /\ agents[i].goal = << >> => agents'[i].goal = agents'[i].role
                     /\ agents[i].backstory = << >> =>
                            agents'[i].backstory = <<"Y","o","u"," ","a","r","e"," ","a"," ">> \o agents'[i].role \o <<".">>]_vars

\* C1 witness: an agent that no source described got the three defaults
C1_Witness ==
    /\ pc = "agents_done"
    /\ \E i \in 1..Len(agents) :
           /\ agents[i].role = <<"L","L","M"," ","A","g","e","n","t">>
           /\ agents[i].goal = <<"L","L","M"," ","A","g","e","n","t">>
           /\ agents[i].backstory = <<"Y","o","u"," ","a","r","e"," ","a"," ","L","L","M"," ","A","g","e","n","t",".">>

(***************************************************************************)
(* C2.  The tri-state flags stay unknown when no source supplies them.     *)
(***************************************************************************)
\* the Config nodes linked to the agent
LinkedConfigs(iri) == Objects(doc.hasAgentConfig, iri)

\* a `key : value` or `key = value` pattern for the key occurs in the text
KeyPatternIn(text, key) ==
    \E lit \in {key, CamelVariant(key)} :
        \E i \in 1..Len(text), j \in 1..Len(text) :
            /\ LiteralAt(text, i, lit)
            /\ j >= i + Len(lit)
            /\ text[j] \in {":", "="}
            /\ \A k \in (i + Len(lit))..(j - 1) : text[k] \in WhiteSpace

\* the description/comment/prompt text of the agent: its description, comment,
\* prompt context and prompt instruction, joined by a space, one text for each
\* combination of their values
AgentTexts(iri) ==
    {JoinNonEmpty(<<StripStr(r.desc), StripStr(r.comment), StripStr(r.promptCtx), StripStr(r.promptInstr)>>) :
         r \in {q \in AGENT_TEXT_FIELDS_QUERY : q.agent = iri}}

\* no source supplies the key for the agent: no pair of a linked Config node in
\* the graph, no pair recovered from the raw text for a linked Config node, no
\* key pattern in its description/comment/prompt text
NoSourceSupplies(iri, key) ==
    /\ \A c \in LinkedConfigs(iri) : key \notin ConfigKeys(c)
    /\ \A i \in UnitPositions(doc.raw_ttl) :
           doc.raw_ttl[i].s = key => SubjectAt(doc.raw_ttl, i) \notin LinkedConfigs(iri)
    /\ \A text \in AgentTexts(iri) : ~KeyPatternIn(text, key)

\* C2: an agent for which no source supplies allow_delegation ends with
\* allow_delegation unknown (None), never False; the same holds for verbose.
C2_FlagsStayUnknown ==
    pc = "agents_done" =>
        \A i \in 1..Len(agents) :
            /\ NoSourceSupplies(agents[i].iri, STR_allow_delegation) => agents[i].allow_delegation = None
            /\ NoSourceSupplies(agents[i].iri, STR_verbose) => agents[i].verbose = None

\* C2 witness: an agent with Config pairs and texts, none of them about
\* allow_delegation, ended with the flag unknown while verbose was resolved
C2_Witness ==
    /\ pc = "agents_done"
    /\ \E i \in 1..Len(agents) :
           /\ NoSourceSupplies(agents[i].iri, STR_allow_delegation)
           /\ ConfigKeys(CFG1) # {}
           /\ Objects(doc.promptInstruction, PROMPT1) # {}
           /\ agents[i].allow_delegation = None
           /\ agents[i].verbose = "True"

(***************************************************************************)
(* C4.  No overwrite by a later step of the cascade.                       *)
(***************************************************************************)
\* C4: in agent extraction, once role, goal, backstory, allow_delegation or
\* verbose has a non-empty (non-unknown) value no step changes it; a step
\* fills a field only if the field is still empty.
C4_FirstValueWins ==
    [][\A i \in 1..Len(agents) :
           /\ Len(agents') >= i
           /\ agents'[i].iri = agents[i].iri
           /\ agents[i].role # << >> => agents'[i].role = agents[i].role
           /\ agents[i].goal # << >> => agents'[i].goal = agents[i].goal
           /\ agents[i].backstory # << >> => agents'[i].backstory = agents[i].backstory
           /\ agents[i].allow_delegation # None => agents'[i].allow_delegation = agents[i].allow_delegation
           /\ agents[i].verbose # None => agents'[i].verbose = agents[i].verbose]_vars

\* C4 witness: the direct role survived the Config pair that offered another
\* one, the goal of the Goal node stayed, and the backstory a Config pair gave
\* was not replaced by the prompt instruction
C4_Witness ==
    /\ pc = "agents_done"
    /\ \E i \in 1..Len(agents) :
           /\ agents[i].role = <<"L","e","a","d">>
           /\ agents[i].goal = <<"W","i","n">>
           /\ agents[i].backstory = <<"O","l","d">>
           /\ {STR_role, STR_backstory} \subseteq ConfigKeys(CFG1)
           /\ Objects(doc.promptInstruction, PROMPT1) # {}

(***************************************************************************)
(* SpecTasks: _extract_tasks on a document with one task, which has a      *)
(* label or none, a description or none or a blank one, a prompt or none   *)
(* and one Config node with up to MaxPairs pairs.  No agent exists.        *)
(***************************************************************************)
TASK1 == <<"o","#","G","e","t","D","a","t","a">>

TaskLabels == {<<"f","e","t","c","h","_","1","x">>, <<"M","y"," ","T","a","s","k">>, <<"_">>}

TaskDescriptions == {<<"D","o"," ","i","t">>, <<" ">>}

TaskPairs == { <<STR_description, <<"D","o"," ","i","t"," ","n","o","w">>>>, <<STR_description, << >> >>, <<STR_expected_output, <<"A"," ","l","i","s","t">>>> }

TaskInstructions == {<<"R","e","a","d">>}

TaskOutputIndicators == {<<"A"," ","f","i","l","e">>}

\* the document of one task with one Config node and the prompts ps
TaskDoc(labels, descs, prompts, ps) ==
    [EmptyDoc EXCEPT
        !.taskNodes = {TASK1},
        !.label = {<<TASK1, l>> : l \in labels},
        !.description = {<<TASK1, d>> : d \in descs},
        !.hasAgentConfig = {<<TASK1, CFG1>>},
        !.raw_ttl = ConfigText(CFG1, ps),
        !.taskPrompt = {<<TASK1, PROMPT1>> : p \in prompts},
        !.prompts = {PROMPT1 : p \in prompts},
        !.promptInstruction = UNION {{<<PROMPT1, i>> : i \in p[1]} : p \in prompts},
        !.promptOutputIndicator = UNION {{<<PROMPT1, o>> : o \in p[2]} : p \in prompts}]

TaskDocs ==
    {TaskDoc(labels, descs, prompts, ps) :
         labels \in AtMostOne(TaskLabels), descs \in AtMostOne(TaskDescriptions),
         prompts \in AtMostOne(AtMostOne(TaskInstructions) \X AtMostOne(TaskOutputIndicators)),
         ps \in SeqsUpTo(TaskPairs, MaxPairs)}

InitTasks ==
    /\ doc \in TaskDocs
    /\ pc = "tasks_primary"
    /\ rows = TASKS_QUERY
    /\ bools = {}
    /\ language_models = << >>
    /\ tools = << >>
    /\ agents = << >>
    /\ tasks = << >>
    /\ resource_to_producer = << >>
    /\ workflow_steps = << >>
    /\ task_list = << >>
    /\ input_variables = << >>
    /\ arg = NoCall
    /\ ret = NoCall
    /\ IdleExtra

NextTasks ==
    \/ ExtractTasksPrimary
    \/ ExtractTasksConfigDescription
    \/ ExtractTasksPrompt
    \/ ExtractTasksExpectedConfig
    \/ ExtractTasksDefaults

SpecTasks == InitTasks /\ [][NextTasks]_vars

(***************************************************************************)
(* C9.  The final defaults of the task records.                            *)
(***************************************************************************)
\* the prompts linked to the task
TaskPrompts(iri) == Objects(doc.taskPrompt \cup doc.hasPrompt, iri)

\* no direct description, no Config description and no prompt instruction exists
NoDescriptionSource(iri) ==
    /\ Objects(doc.description, iri) = {}
    /\ \A c \in LinkedConfigs(iri) : STR_description \notin ConfigKeys(c)
    /\ \A p \in TaskPrompts(iri) : Objects(doc.promptInstruction, p) = {}

\* no prompt output indicator and no Config expected_output exists
NoExpectedOutputSource(iri) ==
    /\ \A p \in TaskPrompts(iri) : Objects(doc.promptOutputIndicator, p) = {}
    /\ \A c \in LinkedConfigs(iri) : STR_expected_output \notin ConfigKeys(c)

\* d is the title-cased form of the identifier v, underscores turned into spaces:
\* every word starts with a capital and goes on in small letters
IsTitleCasedForm(d, v) ==
    /\ Len(d) = Len(v)
    /\ \A i \in 1..Len(v) :
           IF v[i] = "_" THEN d[i] = " "
           ELSE IF v[i] \notin Upper \cup Lower THEN d[i] = v[i]
           ELSE IF i = 1 \/ v[i-1] \notin Upper \cup Lower THEN d[i] \in Upper /\ ToLower(d[i]) = ToLower(v[i])
           ELSE d[i] \in Lower /\ d[i] = ToLower(v[i])

\* C9: after task extraction every task has a non-empty description and
\* expected_output; a task with no direct description, no Config description
\* and no prompt instruction has the title-cased form of its identifier as
\* description, and a task with no prompt output indicator and no Config
\* expected_output has "Completed: {identifier}" as expected output.
C9_TaskDefaults ==
    pc = "tasks_done" =>
        \A i \in 1..Len(tasks) :
            /\ tasks[i].description # << >>
            /\ tasks[i].expected_output # << >>
            /\ NoDescriptionSource(tasks[i].iri) => IsTitleCasedForm(tasks[i].description, tasks[i].var_name)
            /\ NoExpectedOutputSource(tasks[i].iri) =>
                   tasks[i].expected_output = <<"C","o","m","p","l","e","t","e","d",":"," ">> \o tasks[i].var_name

\* C9 witness: a task that no source described got both defaults from the
\* identifier its IRI gave it
C9_Witness ==
    /\ pc = "tasks_done"
    /\ \E i \in 1..Len(tasks) :
           /\ NoDescriptionSource(tasks[i].iri)
           /\ NoExpectedOutputSource(tasks[i].iri)
           /\ tasks[i].var_name = <<"g","e","t","_","d","a","t","a">>
           /\ tasks[i].description = <<"G","e","t"," ","D","a","t","a">>
           /\ tasks[i].expected_output = <<"C","o","m","p","l","e","t","e","d",":"," ","g","e","t","_","d","a","t","a">>

(***************************************************************************)
(* SpecOrder: _extract_tasks, _resolve_task_context, _extract_workflow and *)
(* the reordering of the tasks, on a document with three tasks.  The first *)
(* task has no label or the label "b", which is also the identifier the    *)
(* IRI of the second task gives.  Either every task produces and requires  *)
(* at most one of two resources, or every task has at most one workflow    *)
(* step, with no order or an order up to MaxOrder.                         *)
(***************************************************************************)
MaxOrder == 3

TASK_A == <<"o","#","A">>

TASK_B == <<"o","#","B">>

TASK_C == <<"o","#","C">>

OrderTasks == {TASK_A, TASK_B, TASK_C}

Resources == {<<"o","#","R","1">>, <<"o","#","R","2">>}

\* the step node of a task, and its type
StepOf(t) == t \o <<"s">>

StepTypeOf(t) == IF t = TASK_A THEN <<"o","#","S","t","a","r","t","S","t","e","p">> ELSE IF t = TASK_C THEN <<"o","#","E","n","d","S","t","e","p">> ELSE <<"o","#","W","o","r","k","f","l","o","w","S","t","e","p">>

StepOrders == {Unbound} \cup {IntLiteral(n) : n \in 1..MaxOrder}

OrderDoc(labels, produced, required, orders) ==
    [EmptyDoc EXCEPT
        !.taskNodes = OrderTasks,
        !.label = {<<TASK_A, l>> : l \in labels},
        !.producedResource = UNION {{<<t, r>> : r \in produced[t]} : t \in OrderTasks},
        !.requiresResource = UNION {{<<t, r>> : r \in required[t]} : t \in OrderTasks},
        !.steps = UNION {{[step |-> StepOf(t), stepType |-> StepTypeOf(t), task |-> t, stepOrder |-> o] :
                              o \in orders[t]} : t \in OrderTasks}]

ContextDocs ==
    {OrderDoc(labels, produced, required, [t \in OrderTasks |-> {}]) :
         labels \in AtMostOne({<<"b">>}),
         produced \in [OrderTasks -> AtMostOne(Resources)],
         required \in [OrderTasks -> AtMostOne(Resources)]}

WorkflowDocs ==
    {OrderDoc(labels, [t \in OrderTasks |-> {}], [t \in OrderTasks |-> {}], orders) :
         labels \in AtMostOne({<<"b">>}),
         orders \in [OrderTasks -> AtMostOne(StepOrders)]}

InitOrder ==
    /\ doc \in ContextDocs \cup WorkflowDocs
    /\ pc = "tasks_primary"
    /\ rows = TASKS_QUERY
    /\ bools = {}
    /\ language_models = << >>
    /\ tools = << >>
    /\ agents = << >>
    /\ tasks = << >>
    /\ resource_to_producer = << >>
    /\ workflow_steps = << >>
    /\ task_list = << >>
    /\ input_variables = << >>
    /\ arg = NoCall
    /\ ret = NoCall
    /\ IdleExtra

NextOrder ==
    \/ ExtractTasksPrimary
    \/ ExtractTasksConfigDescription
    \/ ExtractTasksPrompt
    \/ ExtractTasksExpectedConfig
    \/ ExtractTasksDefaults
    \/ CallResolveTaskContext
    \/ ResolveTaskContextProduces
    \/ ResolveTaskContextRequires
    \/ CallExtractWorkflow
    \/ ExtractWorkflow
    \/ ReorderTasks

SpecOrder == InitOrder /\ [][NextOrder]_vars

(***************************************************************************)
(* C5.  The task order follows the workflow steps.                         *)
(***************************************************************************)
\* the step rows of the document that reference the task
StepsOf(iri) == {s \in doc.steps : s.task = iri}

\* the task has one workflow step, with an explicit order
HasOneOrderedStep(iri) == Cardinality(StepsOf(iri)) = 1 /\ \A s \in StepsOf(iri) : s.stepOrder.kind = "int"

\* the order of that step
OrderOfStepOf(iri) == (CHOOSE s \in StepsOf(iri) : TRUE).stepOrder.value

\* C5: when workflow steps exist, the tasks handed to rendering are in
\* ascending order of the order of their workflow step (a task whose step
\* has the smaller explicit order comes first: orders 2, 1, 3 for A, B, C
\* give B, A, C), and the workflow step list is sorted by order.
C5_TasksFollowStepOrder ==
    /\ pc \in {"workflow_done", "reordered"} =>
           \A p \in 1..Len(workflow_steps), q \in 1..Len(workflow_steps) :
               p < q => workflow_steps[p].step_order <= workflow_steps[q].step_order
    /\ pc = "reordered" /\ workflow_steps # << >> =>
           \A i \in 1..Len(task_list), j \in 1..Len(task_list) :
               (/\ HasOneOrderedStep(task_list[i].iri)
                /\ HasOneOrderedStep(task_list[j].iri)
                /\ OrderOfStepOf(task_list[i].iri) < OrderOfStepOf(task_list[j].iri)) => i < j

(***************************************************************************)
(* C6.  The dependency lists of the tasks.                                 *)
(***************************************************************************)
\* task x is the recorded producer of resource r
IsRecordedProducer(x, r) ==
    /\ <<tasks[x].iri, r>> \in doc.producedResource
    /\ r \in DOMAIN resource_to_producer
    /\ resource_to_producer[r] = tasks[x].var_name

\* task y requires resource r
Requires(y, r) == <<tasks[y].iri, r>> \in doc.requiresResource

\* the resources of the document
DocResources == {p[2] : p \in doc.producedResource \cup doc.requiresResource}

\* C6: after task context resolution, for two distinct tasks X and Y where X
\* is the recorded producer of a resource R and Y requires R, the dependency
\* list of Y contains the identifier of X; the list of X contains the
\* identifier of Y only if X requires a resource whose recorded producer is
\* Y; no list contains the identifier of its own task, or an identifier twice.
C6_DependencyLists ==
    pc = "context_done" =>
        /\ \A x \in 1..Len(tasks), y \in 1..Len(tasks) :
               x # y =>
                   /\ \A r \in DocResources :
                          IsRecordedProducer(x, r) /\ Requires(y, r) =>
                              InSeq(tasks[x].var_name, tasks[y].context_task_var_names)
                   /\ InSeq(tasks[y].var_name, tasks[x].context_task_var_names) =>
                          \E r \in DocResources : Requires(x, r) /\ IsRecordedProducer(y, r)
        /\ \A x \in 1..Len(tasks) :
               LET ctx == tasks[x].context_task_var_names
               IN  /\ ~InSeq(tasks[x].var_name, ctx)
                   /\ \A i \in 1..Len(ctx), j \in 1..Len(ctx) : i # j => ctx[i] # ctx[j]

(***************************************************************************)
(* SpecVars: _extract_input_variables on up to MaxVarTasks extracted tasks *)
(* whose descriptions hold placeholders, with prompt input data texts and  *)
(* default-input descriptions.                                             *)
(***************************************************************************)
MaxVarTasks == 2

VarTaskIris == <<TASK_A, TASK_B, TASK_C>>

VarDescriptions == {<<"R","e","s","e","a","r","c","h"," ","{","t","o","p","i","c","}"," ","f","o","r"," ","{","c","o","m","p","a","n","y","}">>, <<"{","c","o","m","p","a","n","y","}","{","a","1","}">>, <<"{","x"," ","{","t","o","p","i","c","}","}"," ","{","}">>}

VarInputData == {<<"{","c","o","m","p","a","n","y","}"," ","{","b","}">>, <<" ","{","b","}","{","t","o","p","i","c","}">>}

VarDefaultTexts == {<<"I","n","p","u","t","s",":","\n","-"," ","t","o","p","i","c",":"," ","'","A","I","'","\n","c","o","m","p","a","n","y"," ","="," ","X","\n","z",":"," ","1">>, <<"i","n","p","u","t"," ","b","=","\n","t","o","p","i","c"," ",":","=","2">>, <<"t","o","p","i","c",":"," ","n","o","n","e">>}

RESOURCE1 == <<"o","#","C","t","x">>

\* the task the extraction of tasks leaves for IRI number k with the description d
ExtractedTask(k, d) ==
    [iri |-> VarTaskIris[k],
     var_name |-> SafeVar(VarTaskIris[k]),
     description |-> d,
     expected_output |-> COMPLETED \o SafeVar(VarTaskIris[k]),
     agent_var_name |-> << >>,
     context_task_var_names |-> << >>]

VarDoc(inputs, defaults) ==
    [EmptyDoc EXCEPT
        !.taskNodes = {VarTaskIris[k] : k \in 1..Len(VarTaskIris)},
        !.prompts = {PROMPT1},
        !.promptInputData = {<<PROMPT1, t>> : t \in inputs},
        !.resourceNodes = {RESOURCE1},
        !.description = {<<RESOURCE1, d>> : d \in defaults}]

InitVars ==
    /\ doc \in {VarDoc(inputs, defaults) : inputs \in SUBSET VarInputData, defaults \in SUBSET VarDefaultTexts}
    /\ \E ds \in SeqsUpTo(VarDescriptions, MaxVarTasks) : tasks = [k \in 1..Len(ds) |-> ExtractedTask(k, ds[k])]
    /\ pc = "vars_tasks"
    /\ rows = {}
    /\ bools = {}
    /\ language_models = << >>
    /\ tools = << >>
    /\ agents = << >>
    /\ resource_to_producer = << >>
    /\ workflow_steps = << >>
    /\ task_list = tasks
    /\ input_variables = << >>
    /\ arg = NoCall
    /\ ret = NoCall
    /\ IdleExtra

NextVars ==
    \/ InputVariablesFromTasks
    \/ InputVariablesFromPrompts
    \/ InputVariablesDefaults

SpecVars == InitVars /\ [][NextVars]_vars

(***************************************************************************)
(* C8.  The input variables.                                               *)
(***************************************************************************)
\* a {name} placeholder stands at position i of the text
PlaceholderAt(text, i, name) ==
    /\ name # << >>
    /\ \A k \in 1..Len(name) : name[k] \in WordChars
    /\ i + Len(name) + 1 <= Len(text)
    /\ text[i] = "{"
    /\ SubSeq(text, i + 1, i + Len(name)) = name
    /\ text[i + Len(name) + 1] = "}"

\* the names of the placeholders of the text
PlaceholderNames(text) ==
    {SubSeq(text, i + 1, j - 1) : <<i, j>> \in {p \in (1..Len(text)) \X (1..Len(text)) :
                                                  p[1] + 1 < p[2] /\ PlaceholderAt(text, p[1], SubSeq(text, p[1] + 1, p[2] - 1))}}

\* the first position of the placeholder in the text
FirstPlace(text, name) == CHOOSE i \in 1..Len(text) : PlaceholderAt(text, i, name) /\ \A j \in 1..(i - 1) : ~PlaceholderAt(text, j, name)

\* the prompt input data texts
InputDataTexts == {StripStr(p[2]) : p \in {q \in doc.promptInputData : q[1] \in doc.prompts}}

\* the tasks whose description holds the placeholder
TasksWith(name) == {k \in 1..Len(tasks) : name \in PlaceholderNames(tasks[k].description)}

FirstTaskWith(name) == CHOOSE k \in TasksWith(name) : \A l \in TasksWith(name) : k <= l

\* name n is seen before name m: in the task descriptions, in task order, or, for
\* two names no task description holds, in one of the input data texts
SeenBefore(n, m) ==
    IF TasksWith(n) # {} /\ TasksWith(m) # {}
    THEN \/ FirstTaskWith(n) < FirstTaskWith(m)
         \/ /\ FirstTaskWith(n) = FirstTaskWith(m)
            /\ FirstPlace(tasks[FirstTaskWith(n)].description, n) < FirstPlace(tasks[FirstTaskWith(n)].description, m)
    ELSE IF TasksWith(n) # {} THEN TRUE
    ELSE IF TasksWith(m) # {} THEN FALSE
    ELSE \E t \in InputDataTexts :
             /\ n \in PlaceholderNames(t)
             /\ m \in PlaceholderNames(t) => FirstPlace(t, n) < FirstPlace(t, m)

\* the lines of the default-value texts, cleaned of the list dash
DefaultLines ==
    UNION {{StripStr(LStrip(StripStr(SplitLines(StripStr(p[2]))[l]), {"-"})) : l \in 1..Len(SplitLines(StripStr(p[2])))} :
               p \in {q \in doc.description : q[1] \in doc.resourceNodes /\ Contains(LowerStr(q[2]), STR_input)}}

\* the values the lines `name = value` and `name: value` give to the name
LineValues(name) ==
    UNION {{StripChars(SubSeq(line, k, Len(line)), {"'", "\""}) :
                k \in {k \in (Len(name) + 2)..Len(line) :
                           /\ SubSeq(line, 1, Len(name)) = name
                           /\ line[k] \notin WhiteSpace
                           /\ \E j \in (Len(name) + 1)..(k - 1) :
                                  /\ line[j] \in {":", "="}
                                  /\ \A s \in ((Len(name) + 1)..(k - 1)) \ {j} : line[s] \in WhiteSpace}} :
               line \in DefaultLines}

\* C8: the input variables are exactly the distinct {name} placeholders of
\* the task descriptions and the prompt input data, each once, in first-seen
\* order; a default-value line adds no variable, it only sets the default of
\* a name already found; a name with no matching line keeps "" as default.
C8_InputVariables ==
    pc = "vars_done" =>
        /\ {input_variables[i].name : i \in 1..Len(input_variables)} =
               UNION {PlaceholderNames(tasks[k].description) : k \in 1..Len(tasks)}
                   \cup UNION {PlaceholderNames(t) : t \in InputDataTexts}
        /\ \A i \in 1..Len(input_variables), j \in 1..Len(input_variables) :
               i < j => /\ input_variables[i].name # input_variables[j].name
                        /\ SeenBefore(input_variables[i].name, input_variables[j].name)
        /\ \A i \in 1..Len(input_variables) :
               IF LineValues(input_variables[i].name) = {}
               THEN input_variables[i].default_value = << >>
               ELSE input_variables[i].default_value \in LineValues(input_variables[i].name)

\* C8 witness: the description of the example gave topic, then company, the
\* input data added b after them, and the default lines set two defaults
C8_Witness ==
    /\ pc = "vars_done"
    /\ Len(tasks) = 1
    /\ tasks[1].description = <<"R","e","s","e","a","r","c","h"," ","{","t","o","p","i","c","}"," ","f","o","r"," ","{","c","o","m","p","a","n","y","}">>
    /\ input_variables = << [name |-> <<"t","o","p","i","c">>, default_value |-> <<"A","I">>],
                            [name |-> <<"c","o","m","p","a","n","y">>, default_value |-> <<"X">>],
                            [name |-> <<"b">>, default_value |-> << >>] >>

(***************************************************************************)
(* SpecProject: extract_crew_project from step 3 on, on the documents of   *)
(* at most one agent, one tool, one task and one workflow step, where the  *)
(* agent, the tool link, the assignment of the task and the step may each  *)
(* be missing.                                                             *)
(***************************************************************************)
TOOL1 == <<"o","#","S","e","a","r","c","h">>

UNKNOWN_AGENT == <<"o","#","G","h","o","s","t">>

ProjectStepOrders == {Unbound, IntLiteral(1), TextLiteral}

ProjectDoc(agentNodes, toolNodes, links, performers, orders) ==
    [EmptyDoc EXCEPT
        !.llmAgents = agentNodes,
        !.toolNodes = toolNodes,
        !.agentToolUsage = links,
        !.taskNodes = {TASK1},
        !.description = {<<TASK1, <<"R","e","s","e","a","r","c","h"," ","{","t","o","p","i","c","}">>>>},
        !.performedByAgent = {<<TASK1, a>> : a \in performers},
        !.steps = {[step |-> StepOf(TASK1), stepType |-> StepTypeOf(TASK1), task |-> TASK1, stepOrder |-> o] : o \in orders}]

ProjectDocs ==
    {ProjectDoc(agentNodes, toolNodes, links, performers, orders) :
         agentNodes \in SUBSET {AGENT1}, toolNodes \in SUBSET {TOOL1}, links \in SUBSET {<<AGENT1, TOOL1>>},
         performers \in AtMostOne({AGENT1, UNKNOWN_AGENT}), orders \in AtMostOne(ProjectStepOrders)}

InitProject ==
    /\ doc \in ProjectDocs
    /\ pc = "tools_primary"
    /\ rows = TOOLS_QUERY
    /\ bools = {}
    /\ language_models = << >>
    /\ tools = << >>
    /\ agents = << >>
    /\ tasks = << >>
    /\ resource_to_producer = << >>
    /\ workflow_steps = << >>
    /\ task_list = << >>
    /\ input_variables = << >>
    /\ arg = NoCall
    /\ ret = NoCall
    /\ IdleExtra

NextProject ==
    \/ ExtractToolsPrimary
    \/ ExtractToolsConfigs
    \/ CallExtractAgents
    \/ ExtractAgentsPrimary
    \/ ExtractAgentsGoal
    \/ ExtractAgentsConfig
    \/ ExtractAgentsBackstory
    \/ ExtractAgentsTools
    \/ ExtractAgentsLlm
    \/ ExtractAgentsDelegation
    \/ ExtractAgentsVerbose
    \/ ExtractAgentsRawTtl
    \/ ExtractAgentsText
    \/ ExtractAgentsDefaults
    \/ CallExtractTasks
    \/ ExtractTasksPrimary
    \/ ExtractTasksConfigDescription
    \/ ExtractTasksPrompt
    \/ ExtractTasksExpectedConfig
    \/ ExtractTasksDefaults
    \/ CallResolveTaskContext
    \/ ResolveTaskContextProduces
    \/ ResolveTaskContextRequires
    \/ CallExtractWorkflow
    \/ ExtractWorkflow
    \/ ReorderTasks
    \/ CallExtractInputVariables
    \/ InputVariablesFromTasks
    \/ InputVariablesFromPrompts
    \/ InputVariablesDefaults
    \/ CallExtractEnvVars
    \/ ExtractEnvVars
    \/ ReturnProject

SpecProject == InitProject /\ [][NextProject]_vars

(***************************************************************************)
(* C10.  Missing agents, tools, assignments and steps.                     *)
(***************************************************************************)
\* the agents of the document that use no tool of the document
AgentsWithoutTools == {a \in doc.llmAgents : AGENT_TOOLS_QUERY \cap {r \in AGENT_TOOLS_QUERY : r.agent = a} = {}}

\* the tasks of the document with no assigned agent, or one that is no agent of the document
TasksWithoutAgent == {t \in doc.taskNodes : Objects(doc.performedByAgent, t) \cap doc.llmAgents = {}}

\* the document misses one of the optional parts
SomePartMissing ==
    \/ doc.llmAgents = {}
    \/ AgentsWithoutTools # {}
    \/ TasksWithoutAgent # {}
    \/ WORKFLOW_QUERY = {}

\* the returned project represents every missing part as empty
MissingPartsAreEmpty ==
    /\ doc.llmAgents = {} => agents = << >>
    /\ \A i \in 1..Len(agents) : agents[i].iri \in AgentsWithoutTools => agents[i].tool_var_names = << >>
    /\ \A i \in 1..Len(task_list) : task_list[i].iri \in TasksWithoutAgent => task_list[i].agent_var_name = << >>
    /\ WORKFLOW_QUERY = {} => workflow_steps = << >>

\* C10: the extraction of a document with no Agent individuals completes
\* without raising and yields an empty agent list; an agent with no tools
\* gets an empty tool list, a task with no assigned or no known agent the
\* empty agent identifier, a project with no workflow steps an empty step
\* list; none of these raises an error.
C10_MissingPartsNeverRaise ==
    /\ SomePartMissing => pc # "raised"
    /\ pc = "project_done" => MissingPartsAreEmpty

(***************************************************************************)
(* SpecTeam: _extract_team on the documents of one Team with one system    *)
(* Config node of up to MaxPairs pairs, two WorkflowPattern nodes and the  *)
(* Team's own description and comment, and on the document with no Team.   *)
(***************************************************************************)
TEAM1 == <<"o","#","C","r","e","w">>

WP1 == <<"o","#","F","l","o","w">>

WP2 == <<"o","#","P","l","a","n">>

ProcessPairs == { <<STR_process, <<"H","i","e","r","a","r","c","h","i","c","a","l">>>>, <<STR_process, <<" ","s","e","q","u","e","n","t","i","a","l">>>>, <<STR_process, <<"p","a","r","a","l","l","e","l">>>>,
                  <<<<"s","t","y","l","e">>, <<"h","i","e","r","a","r","c","h","i","c","a","l">>>> }

TeamDoc(ps, labels1, titles1, labels2, descs, comments) ==
    [EmptyDoc EXCEPT
        !.teams = {TEAM1},
        !.hasSystemConfig = {<<TEAM1, CFG1>>},
        !.raw_ttl = ConfigText(CFG1, ps),
        !.workflowPatterns = {WP1, WP2},
        !.label = {<<WP1, l>> : l \in labels1} \cup {<<WP2, l>> : l \in labels2},
        !.title = {<<WP1, t>> : t \in titles1},
        !.description = {<<TEAM1, d>> : d \in descs},
        !.comment = {<<TEAM1, c>> : c \in comments}]

TeamDocs ==
    {TeamDoc(ps, labels1, titles1, labels2, descs, comments) :
         ps \in SeqsUpTo(ProcessPairs, MaxPairs),
         labels1 \in AtMostOne({<<"S","e","q","u","e","n","t","i","a","l"," ","f","l","o","w">>, <<"p","l","a","i","n">>}), titles1 \in AtMostOne({<<"A"," ","h","i","e","r","a","r","c","h","i","c","a","l"," ","o","n","e">>}),
         labels2 \in AtMostOne({<<"h","i","e","r","a","r","c","h","i","c","a","l">>}),
         descs \in AtMostOne({<<"S","e","q","u","e","n","t","i","a","l"," ","t","e","a","m">>, <<"x">>}), comments \in AtMostOne({<<"h","i","e","r","a","r","c","h","i","c","a","l">>})}
        \cup {EmptyDoc}

InitTeam ==
    /\ doc \in TeamDocs
    /\ pc = "team_primary"
    /\ team = NewTeam
    /\ rows = {}
    /\ bools = {}
    /\ language_models = << >>
    /\ tools = << >>
    /\ agents = << >>
    /\ tasks = << >>
    /\ resource_to_producer = << >>
    /\ workflow_steps = << >>
    /\ task_list = << >>
    /\ input_variables = << >>
    /\ arg = NoCall
    /\ ret = NoCall
    /\ env_vars = << >>
    /\ loader = NoLoad
    /\ batch = NoBatch
    /\ order = << >>
    /\ previous = NoProject

NextTeam ==
    \/ ExtractTeamPrimary
    \/ ExtractTeamProcessConfig
    \/ ExtractTeamWorkflowPattern
    \/ ExtractTeamDescription

SpecTeam == InitTeam /\ [][NextTeam]_vars

(***************************************************************************)
(* C11.  The sources of the process.                                       *)
(***************************************************************************)
\* the values the text of the document pairs with the key under Config node c
PairedValues(c, key) ==
    {doc.raw_ttl[i + 1].s : i \in {u \in UnitPositions(doc.raw_ttl) :
                                       doc.raw_ttl[u].s = key /\ SubjectAt(doc.raw_ttl, u) = c}}

\* the signals the texts give
Signals(texts) == {InferProcessFromText(StripStr(t)) : t \in texts} \ {None}

\* source 1: the values paired with the config key "process" on a system Config of a Team
ProcessConfigSignals ==
    Signals(UNION {PairedValues(p[2], STR_process) : p \in {q \in doc.hasSystemConfig : q[1] \in doc.teams}})

\* source 2: the texts of the WorkflowPattern nodes
WorkflowPatternSignals ==
    Signals(UNION {Objects(doc.label, w) \cup Objects(doc.description, w) \cup Objects(doc.comment, w)
                       \cup Objects(doc.title, w) : w \in doc.workflowPatterns})

\* source 3: the description and the comment of the Team
TeamTextSignals ==
    Signals(UNION {Objects(doc.description, t) \cup Objects(doc.comment, t) : t \in doc.teams})

\* C11: the process comes from the first source that gives a signal, in the
\* order: the value paired with the config key "process", the WorkflowPattern
\* texts, the Team's description and comment; a later source never overrides
\* an earlier signal; with no signal at all the process is SEQUENTIAL.
C11_ProcessFromFirstSource ==
    pc = "team_done" =>
        IF ProcessConfigSignals # {} THEN team.process \in ProcessConfigSignals
        ELSE IF WorkflowPatternSignals # {} THEN team.process \in WorkflowPatternSignals
        ELSE IF TeamTextSignals # {} THEN team.process \in TeamTextSignals
        ELSE team.process = SEQUENTIAL

(***************************************************************************)
(* SpecFlags: _extract_agents on the documents of one agent whose Config   *)
(* node carries up to MaxPairs pairs about the two flags, written as       *)
(* key/value units or as a list of keys followed by a list of values, so   *)
(* that the config-key queries can yield conflicting values.               *)
(***************************************************************************)
ConflictPairs ==
    { <<STR_allow_delegation, <<"T","r","u","e">>>>, <<STR_allow_delegation, <<"n","o">>>>,
      <<STR_verbose, <<"0">>>>, <<STR_verbose, <<"2">>>>, <<STR_verbose, <<"m","a","y","b","e">>>> }

\* :configKey "k1", "k2" ; :configValue "v1", "v2" -- only the last key and the first value are adjacent
SplitConfigText(name, ks, vs) ==
    << [t |-> "decl", s |-> name] >> \o [i \in 1..Len(ks) |-> [t |-> "key", s |-> ks[i]]]
                                     \o [i \in 1..Len(vs) |-> [t |-> "val", s |-> vs[i]]]

PairedFlagDocs ==
    {AgentDoc({}, {}, instrs, descs, {}, ps) :
         instrs \in AtMostOne(FlagInstructions), descs \in AtMostOne(AgentDescriptions),
         ps \in SeqsUpTo(ConflictPairs, MaxPairs)}

SplitFlagDocs ==
    {[AgentDoc({}, {}, instrs, descs, {}, << >>) EXCEPT !.raw_ttl = SplitConfigText(CFG1, ks, vs)] :
         instrs \in AtMostOne(FlagInstructions), descs \in AtMostOne(AgentDescriptions),
         ks \in SeqsUpTo({STR_allow_delegation, STR_verbose}, MaxPairs) \ {<< >>},
         vs \in [1..2 -> {<<"T","r","u","e">>, <<"n","o">>}]}

InitFlags ==
    /\ doc \in PairedFlagDocs \cup SplitFlagDocs
    /\ pc = "agents_primary"
    /\ rows = AGENTS_QUERY
    /\ bools = {}
    /\ language_models = << >>
    /\ tools = << >>
    /\ agents = << >>
    /\ tasks = << >>
    /\ resource_to_producer = << >>
    /\ workflow_steps = << >>
    /\ task_list = << >>
    /\ input_variables = << >>
    /\ arg = NoCall
    /\ ret = NoCall
    /\ IdleExtra

SpecFlags == InitFlags /\ [][NextAgents]_vars

(***************************************************************************)
(* C12.  Conflicting values of the config-key query.                       *)
(***************************************************************************)
\* the values the dedicated config-key query yields for the key of the agent
QueryValues(iri, key) == {LowerStr(StripStr(r.value)) : r \in {q \in ConfigKeyRows(key) : StripStr(q.subject) = iri}}

\* the values the step reads as true and as false: for allow_delegation the
\* words true/1/yes and false/0/no, for verbose also any number and none
ReadsAsTrue(key, v) == v \in TrueWords \/ (key = STR_verbose /\ IsDigitStr(v) /\ v \notin FalseWords)

ReadsAsFalse(key, v) == v \in FalseWords /\ (key = STR_allow_delegation => v \in DelegWords)

QueryYieldsBoth(iri, key) ==
    /\ \E v \in QueryValues(iri, key) : ReadsAsTrue(key, v)
    /\ \E v \in QueryValues(iri, key) : ReadsAsFalse(key, v)

\* what the raw-text step makes of a value it recovered for the key
RawTextFlag(key, v) ==
    IF key = STR_allow_delegation THEN BoolName(LowerStr(v) \in TrueWords) ELSE BoolName(LowerStr(v) \notin FalseWords)

\* the values the raw-text step and the text-pattern step can give the flag of the agent
RawTextFlags(iri, key) == {RawTextFlag(key, v) : v \in UNION {PairedValues(c, key) : c \in LinkedConfigs(iri)}}

TextPatternFlags(iri, key) == {ParseBoolFromText(t, key) : t \in AgentTexts(iri)} \ {None}

\* the flag of a conflicting key ends as a later step resolved it, or unknown
ConflictResolvedLater(iri, key, flag) ==
    QueryYieldsBoth(iri, key) =>
        IF RawTextFlags(iri, key) # {} THEN flag \in RawTextFlags(iri, key)
        ELSE IF TextPatternFlags(iri, key) # {} THEN flag \in TextPatternFlags(iri, key)
        ELSE flag = None

\* C12: when the config-key query yields both a true and a false value for
\* allow_delegation (or verbose) of an agent, the config-key step leaves the
\* field unknown; the field then has the value of the raw-text step or of the
\* text-pattern step if one of them resolves it, and is unknown otherwise.
C12_ConflictSetsNothing ==
    /\ [][pc = "agents_delegation" /\ pc' = "agents_verbose" =>
              \A i \in 1..Len(agents) :
                  QueryYieldsBoth(agents[i].iri, STR_allow_delegation) => agents'[i].allow_delegation = None]_vars
    /\ [][pc = "agents_verbose" /\ pc' = "agents_raw_ttl" =>
              \A i \in 1..Len(agents) :
                  QueryYieldsBoth(agents[i].iri, STR_verbose) => agents'[i].verbose = None]_vars
    /\ [](pc = "agents_done" =>
              \A i \in 1..Len(agents) :
                  /\ ConflictResolvedLater(agents[i].iri, STR_allow_delegation, agents[i].allow_delegation)
                  /\ ConflictResolvedLater(agents[i].iri, STR_verbose, agents[i].verbose))

\* C12 witness: both queries yield True and no; no unit and no text is about
\* allow_delegation, which stays unknown, while the raw text pairs verbose
\* with True
C12_Witness ==
    /\ pc = "agents_done"
    /\ Len(agents) = 1
    /\ QueryYieldsBoth(agents[1].iri, STR_allow_delegation)
    /\ QueryYieldsBoth(agents[1].iri, STR_verbose)
    /\ RawTextFlags(agents[1].iri, STR_allow_delegation) = {}
    /\ TextPatternFlags(agents[1].iri, STR_allow_delegation) = {}
    /\ agents[1].allow_delegation = None
    /\ RawTextFlags(agents[1].iri, STR_verbose) = {"True"}
    /\ agents[1].verbose = "True"

(***************************************************************************)
(* SpecLoad: parse_kg and load_graph on the files that one, the other or   *)
(* neither syntax reads, where a failing parser may have added triples     *)
(* before its error.                                                       *)
(***************************************************************************)
FilePaths == {<<"a",".","t","t","l">>, <<"b",".","r","d","f">>}

TurtleReadings == [ok : BOOLEAN, triples : SUBSET {"t1", "t2"}, message : {<<"B","a","d"," ","s","y","n","t","a","x">>}]

XmlReadings == [ok : BOOLEAN, triples : SUBSET {"t2", "t3"}, message : {<<"n","o","t"," ","w","e","l","l","-","f","o","r","m","e","d">>}]

Files == [path : FilePaths, turtle : TurtleReadings, xml : XmlReadings]

InitLoad ==
    /\ \E fn \in {"parse_kg", "load_graph"}, file \in Files :
           /\ pc = fn
           /\ loader = NewLoader(fn, file)
    /\ IdlePipeline
    /\ arg = NoCall
    /\ ret = NoCall
    /\ team = NoTeam
    /\ env_vars = << >>
    /\ batch = NoBatch
    /\ order = << >>
    /\ previous = NoProject

NextLoad ==
    \/ ParseKgTurtle
    \/ ParseKgXml
    \/ LoadGraph

SpecLoad == InitLoad /\ [][NextLoad]_vars

(***************************************************************************)
(* C13.  Loading a document.                                               *)
(***************************************************************************)
Loaded == pc \in {"parse_kg_loaded", "load_graph_loaded"}

LoadRaised == pc \in {"parse_kg_raised", "load_graph_raised"}

\* the syntax that read the file, for a load that returned
ReadingOf(l) == IF l.tried[Len(l.tried)] = "turtle" THEN l.file.turtle ELSE l.file.xml

\* parse_kg alone: what the claim says of it, but for the leftover triples
ParseKgTriesBoth ==
    /\ pc = "parse_kg_loaded" => (loader.tried = <<"turtle">> /\ loader.file.turtle.ok)
                                     \/ (loader.tried = <<"turtle", "xml">> /\ ~loader.file.turtle.ok /\ loader.file.xml.ok)
    /\ pc = "parse_kg_raised" =>
           /\ loader.tried = <<"turtle", "xml">>
           /\ ~loader.file.turtle.ok /\ ~loader.file.xml.ok
           /\ loader.error.path = loader.file.path
           /\ loader.error.message = loader.file.turtle.message

\* C13: loading tries the primary syntax and, on failure, one alternate
\* syntax; when both fail it raises an error that carries the file path and
\* the message of the primary parser; a failed load returns no graph, and a
\* returned graph holds no triples left over from a failed attempt.
C13_LoadFallsBack ==
    /\ Loaded =>
           /\ ReadingOf(loader).ok
           /\ loader.g = ReadingOf(loader).triples
    /\ LoadRaised =>
           /\ loader.tried = <<"turtle", "xml">>
           /\ loader.error.path = loader.file.path
           /\ loader.error.message = loader.file.turtle.message

(***************************************************************************)
(* SpecBatch: the batch driver on the walks of at most MaxFiles files of   *)
(* the data directory and one subdirectory, graph documents and other      *)
(* files, the data directory's files first.  SpecBatchLive adds that the   *)
(* driver, a sequential program, keeps running until it ends.              *)
(***************************************************************************)
MaxFiles == 3

SUB_DIR == <<"k","g","_","g","3","/","s">>

WalkFiles ==
    [root : {DATA_DIR, SUB_DIR}, name : {<<"a",".","t","t","l">>, <<"a",".","r","d","f">>},
     fails : {"none", "parse_kg", "generate_crewai_code", "generate_autogen_code"}]
    \cup [root : {DATA_DIR, SUB_DIR}, name : {<<"n",".","m","d">>}, fails : {"none"}]

\* os.walk yields the files of a directory together, the top directory
\* first, and every file once
IsWalk(files) ==
    /\ \A i, j \in 1..Len(files) : i < j => PathJoin(files[i].root, files[i].name) # PathJoin(files[j].root, files[j].name)
    /\ \A i, j \in 1..Len(files) : i < j => ~(files[i].root = SUB_DIR /\ files[j].root = DATA_DIR)

InitBatch ==
    /\ \E files \in SeqsUpTo(WalkFiles, MaxFiles) :
           /\ IsWalk(files)
           /\ batch = NewBatch(files)
    /\ pc = "walk"
    /\ IdlePipeline
    /\ arg = NoCall
    /\ ret = NoCall
    /\ team = NoTeam
    /\ env_vars = << >>
    /\ loader = NoLoad
    /\ order = << >>
    /\ previous = NoProject

NextBatch ==
    \/ NextFile
    \/ TryParseKg
    \/ WriteCrewai
    \/ WriteAutogen
    \/ PrintSummary

SpecBatch == InitBatch /\ [][NextBatch]_vars

SpecBatchLive == SpecBatch /\ WF_vars(NextBatch)

(***************************************************************************)
(* C14.  A failing document does not stop the batch.                       *)
(***************************************************************************)
GraphPositions(files) == {i \in 1..Len(files) : IsGraphFile(files[i].name)}

\* the files taken so far whose try block raised: a graph document that
\* makes a call fail, or a file handled with the names of such a document
\* or with no names bound yet
RECURSIVE FailsAt(_, _)
FailsAt(files, i) ==
    IF i = 0 THEN "NameError"
    ELSE IF IsGraphFile(files[i].name) THEN files[i].fails
    ELSE FailsAt(files, i - 1)

RaisedPositions(b, n) == {i \in 1..n : FailsAt(b.files, i) # "none"}

RECURSIVE ExpectedErrors(_, _)
ExpectedErrors(b, n) ==
    IF n = 0 THEN << >>
    ELSE IF FailsAt(b.files, n) # "none"
         THEN Append(ExpectedErrors(b, n - 1), [filename |-> b.files[n].name, error |-> FailsAt(b.files, n)])
         ELSE ExpectedErrors(b, n - 1)

\* C14: an exception raised in the try block for one file is caught and
\* reported with the file's name, every graph document of the walk is still
\* handed to the parser, and the batch always reaches its summary line.
C14_BatchSurvivesErrors ==
    /\ [](pc = "walk" => batch.errors = ExpectedErrors(batch, batch.taken))
    /\ [](pc = "batch_done" =>
              /\ batch.taken = Len(batch.files)
              /\ \A i \in GraphPositions(batch.files) :
                     \E k \in 1..Len(batch.parsed) :
                         /\ batch.parsed[k].taken = i
                         /\ batch.parsed[k].kg_path = PathJoin(batch.files[i].root, batch.files[i].name))
    /\ <>(pc = "batch_done" /\ batch.summary = <<batch.PROCESSED_COUNT>>)

\* witness: the batch is done, a document raised and a later one was written
C14_Witness ==
    /\ pc = "batch_done"
    /\ \E i, j \in GraphPositions(batch.files) :
           /\ i < j
           /\ batch.files[i].fails # "none"
           /\ batch.files[j].fails = "none"
           /\ \E k \in 1..Len(batch.written) : batch.written[k].taken = j
    /\ batch.errors # << >>

(***************************************************************************)
(* C15.  The success count.                                                *)
(***************************************************************************)
\* the graph documents both of whose outputs were written
BothWritten(b) ==
    {p \in {b.written[k].kg_path : k \in 1..Len(b.written)} :
        /\ \E k \in 1..Len(b.written) : b.written[k].kg_path = p /\ b.written[k].by = "generate_crewai_code"
        /\ \E k \in 1..Len(b.written) : b.written[k].kg_path = p /\ b.written[k].by = "generate_autogen_code"}

\* C15: each graph document is processed exactly once and nothing is
\* processed for another file, so the final success count is the number of
\* graph documents with both outputs written and at most the number of
\* graph documents.
C15_CountsGraphDocuments ==
    pc = "batch_done" =>
        /\ \A i \in GraphPositions(batch.files) :
               Cardinality({k \in 1..Len(batch.parsed) :
                               batch.parsed[k].kg_path = PathJoin(batch.files[i].root, batch.files[i].name)}) = 1
        /\ \A k \in 1..Len(batch.parsed) : batch.parsed[k].taken \in GraphPositions(batch.files)
        /\ batch.PROCESSED_COUNT = Cardinality(BothWritten(batch))
        /\ batch.PROCESSED_COUNT <= Cardinality(GraphPositions(batch.files))

\* the same without the files that are no graph documents in the walk
C15_GraphDocumentsOnly ==
    (\A i \in 1..Len(batch.files) : IsGraphFile(batch.files[i].name)) => C15_CountsGraphDocuments

(***************************************************************************)
(* SpecEnv: step 10 of extract_crew_project on the documents of two Config *)
(* nodes, the first with at most MaxPairs pairs and the second with at     *)
(* most one, over keys that name an environment setting and one that does  *)
(* not.                                                                    *)
(***************************************************************************)
EnvKeys == {STR_api_key, <<"m","y","_","e","n","v">>, <<"m","o","d","e","l">>}

EnvValues == {<<"s","k">>, <<"g","p","t">>}

EnvPairs == {<<k, v>> : k \in EnvKeys, v \in EnvValues}

EnvDoc(pairs1, pairs2) ==
    [EmptyDoc EXCEPT
        !.raw_ttl = ConfigText(CFG1, pairs1) \o ConfigText(CFG2, pairs2)]

EnvDocs == {EnvDoc(pairs1, pairs2) : pairs1 \in SeqsUpTo(EnvPairs, MaxPairs), pairs2 \in SeqsUpTo(EnvPairs, 1)}

InitEnv ==
    /\ doc \in EnvDocs
    /\ pc = "vars_done"
    /\ rows = {}
    /\ bools = {}
    /\ language_models = << >>
    /\ tools = << >>
    /\ agents = << >>
    /\ tasks = << >>
    /\ resource_to_producer = << >>
    /\ workflow_steps = << >>
    /\ task_list = << >>
    /\ input_variables = << >>
    /\ arg = NoCall
    /\ ret = NoCall
    /\ IdleExtra

NextEnv ==
    \/ CallExtractEnvVars
    \/ ExtractEnvVars
    \/ ReturnProject

SpecEnv == InitEnv /\ [][NextEnv]_vars

(***************************************************************************)
(* C18.  The environment entries.                                          *)
(***************************************************************************)
IsEnvKey(k) == Contains(k, STR_api_key) \/ Contains(k, STR_env)

\* the pairs <<key, value>> the text of the document writes under a Config node
ConfigNodePairs ==
    {<<doc.raw_ttl[u].s, doc.raw_ttl[u + 1].s>> : u \in {i \in UnitPositions(doc.raw_ttl) : SubjectAt(doc.raw_ttl, i) \in ConfigNodes}}

EnvEntries == {<<env_vars[i].key, env_vars[i].value>> : i \in 1..Len(env_vars)}

\* C18: every Config node pair whose key contains "api_key" or "env" is an
\* entry with that key and the value paired with it, verbatim; no such pair
\* is lost and no entry carries a value that belongs to another key.
C18_EnvPairsSurfaced ==
    pc = "project_done" =>
        /\ \A p \in ConfigNodePairs : IsEnvKey(p[1]) => p \in EnvEntries
        /\ \A e \in EnvEntries : e \in ConfigNodePairs

\* the same for the documents whose Config nodes hold one pair each and no
\* key twice
OnePairPerKey ==
    /\ \A c \in ConfigNodes : Cardinality(ConfigKeys(c)) <= 1 /\ Cardinality(ConfigValues(c)) <= 1
    /\ \A p, q \in ConfigNodePairs : p[1] = q[1] => p = q

C18_OnePairPerKey == OnePairPerKey => C18_EnvPairsSurfaced

(***************************************************************************)
(* SpecFull: extract_crew_project from the team to the assembled project,  *)
(* on the documents of one agent, one tool that may also be typed as an    *)
(* agent, one language model, two tasks, one resource and one team, where  *)
(* the links may point to nodes the document does not type.                *)
(***************************************************************************)
LM1 == <<"o","#","L","l","m">>

RES1 == <<"o","#","R","1">>

LinkDoc(agentNodes, toolNodes, lmNodes, lmLinks, performers, required, teamNodes) ==
    [EmptyDoc EXCEPT
        !.llmAgents = agentNodes,
        !.toolNodes = toolNodes,
        !.agentToolUsage = {<<AGENT1, TOOL1>>},
        !.languageModels = lmNodes,
        !.label = {<<LM1, <<"O","l","l","a","m","a"," ","(","l","3",")">>>>},
        !.useLanguageModel = lmLinks,
        !.taskNodes = {TASK_A, TASK_B},
        !.performedByAgent = {<<TASK_A, a>> : a \in performers},
        !.producedResource = {<<TASK_A, RES1>>},
        !.requiresResource = {<<TASK_B, r>> : r \in required},
        !.teams = teamNodes,
        !.description = {<<TEAM1, <<"a"," ","h","i","e","r","a","r","c","h","i","c","a","l"," ","c","r","e","w">>>>}]

LinkDocs ==
    {LinkDoc(agentNodes, toolNodes, lmNodes, lmLinks, performers, required, teamNodes) :
         agentNodes \in {{}, {AGENT1}, {AGENT1, TOOL1}}, toolNodes \in SUBSET {TOOL1},
         lmNodes \in SUBSET {LM1}, lmLinks \in SUBSET {<<AGENT1, LM1>>},
         performers \in AtMostOne({AGENT1, UNKNOWN_AGENT}), required \in SUBSET {RES1},
         teamNodes \in SUBSET {TEAM1}}

InitFull ==
    /\ doc \in LinkDocs
    /\ pc = "team_primary"
    /\ team = NewTeam
    /\ rows = {}
    /\ bools = {}
    /\ language_models = << >>
    /\ tools = << >>
    /\ agents = << >>
    /\ tasks = << >>
    /\ resource_to_producer = << >>
    /\ workflow_steps = << >>
    /\ task_list = << >>
    /\ input_variables = << >>
    /\ arg = NoCall
    /\ ret = NoCall
    /\ env_vars = << >>
    /\ loader = NoLoad
    /\ batch = NoBatch
    /\ order = << >>
    /\ previous = NoProject

NextFull ==
    \/ ExtractTeamPrimary
    \/ ExtractTeamProcessConfig
    \/ ExtractTeamWorkflowPattern
    \/ ExtractTeamDescription
    \/ CallExtractLanguageModels
    \/ ExtractLanguageModels
    \/ CallExtractTools
    \/ NextProject

SpecFull == InitFull /\ [][NextFull]_vars

(***************************************************************************)
(* C19.  The cross-references of the assembled project.                    *)
(***************************************************************************)
ToolNamesResolve ==
    \A i \in 1..Len(agents) : \A n \in 1..Len(agents[i].tool_var_names) :
        \E k \in 1..Len(tools) :
            /\ tools[k].var_name = agents[i].tool_var_names[n]
            /\ tools[k].iri \notin doc.llmAgents

LanguageModelsResolve ==
    \A i \in 1..Len(agents) :
        agents[i].llm # << >> => \E k \in 1..Len(language_models) : <<language_models[k].iri>> = agents[i].llm

AssignedAgentsResolve ==
    \A i \in 1..Len(task_list) :
        \/ task_list[i].agent_var_name = << >>
        \/ \E k \in 1..Len(agents) : agents[k].var_name = task_list[i].agent_var_name

DependenciesResolve ==
    \A i \in 1..Len(task_list) : \A n \in 1..Len(task_list[i].context_task_var_names) :
        \E k \in 1..Len(task_list) : task_list[k].var_name = task_list[i].context_task_var_names[n]

\* C19: in the assembled project every name in an agent's tool list is the
\* identifier of a Tool record that is no LLMAgent node, every agent's
\* language model is a LanguageModel record of the project, every task's
\* assigned agent is empty or the identifier of an Agent record, and every
\* dependency is the identifier of a Task record.
C19_CrossReferencesResolve ==
    pc = "project_done" =>
        /\ ToolNamesResolve
        /\ LanguageModelsResolve
        /\ AssignedAgentsResolve
        /\ DependenciesResolve

\* witness: a project with each kind of reference, and a task whose
\* performer is no agent of the document
C19_Witness ==
    /\ pc = "project_done"
    /\ \E i \in 1..Len(agents) : agents[i].tool_var_names # << >> /\ agents[i].llm # << >>
    /\ \E i \in 1..Len(task_list) : task_list[i].agent_var_name # << >>
    /\ \E i \in 1..Len(task_list) : task_list[i].context_task_var_names # << >>

C19_WitnessUnknownAgent ==
    /\ pc = "project_done"
    /\ <<TASK_A, UNKNOWN_AGENT>> \in doc.performedByAgent
    /\ TOOL1 \in doc.llmAgents \cap doc.toolNodes

(***************************************************************************)
(* SpecTwice: extract_crew_project run twice on one document, after a run  *)
(* on another document or after none.  order names the order in which the  *)
(* store returns the rows of every query, the same in all runs: ascending  *)
(* or descending in one fixed order of the rows.  previous holds the       *)
(* document to come while the other document runs, and the project of the  *)
(* first run while the second runs.                                        *)
(***************************************************************************)
\* the mutant of FreshCollections: the step list outlives the run
StaleCollections ==
    [language_models |-> << >>, tools |-> << >>, agents |-> << >>, tasks |-> << >>,
     resource_to_producer |-> << >>, workflow_steps |-> workflow_steps, task_list |-> << >>,
     input_variables |-> << >>, env_vars |-> << >>, bools |-> {}]

\* extractor.py lines 572, 606, 648, 720, 810, 883, 903, 929 and 966: every
\* step of a run builds its own collection
FreshCollections ==
    [language_models |-> << >>, tools |-> << >>, agents |-> << >>, tasks |-> << >>,
     resource_to_producer |-> << >>, workflow_steps |-> << >>, task_list |-> << >>,
     input_variables |-> << >>, env_vars |-> << >>, bools |-> {}]

RECURSIVE LastOf(_)
LastOf(S) == LET x == CHOOSE x \in S : TRUE IN IF S = {x} THEN x ELSE LastOf(S \ {x})

\* the row the store returns first among the rows S
FirstRow(S) == IF order = "ascending" THEN CHOOSE x \in S : TRUE ELSE LastOf(S)

\* every loop takes the rows of its query in the order of the store
InQueryOrder ==
    CASE pc = "team_primary" ->
             TEAM_QUERY # {} => team' = TeamFromRow(team, FirstRow(TEAM_QUERY))
      [] pc = "team_pattern" /\ rows # {} ->
             LET row == FirstRow(rows)
             IN  /\ team' = ProcessFromFields(team, <<StripStr(row.label), StripStr(row.desc),
                                                      StripStr(row.comment), StripStr(row.title)>>)
                 /\ rows' = rows \ {row} \/ pc' # pc
      [] pc = "team_desc" /\ rows # {} ->
             LET row == FirstRow(rows)
             IN  /\ team' = FirstProcessFromFields(team, <<StripStr(row.desc), StripStr(row.comment)>>)
                 /\ rows' = rows \ {row} \/ pc' # pc
      [] pc = "agents_raw_ttl" /\ doc.raw_ttl # << >> ->
             LET ttl_kv == ParseConfigKvFromTtl(doc.raw_ttl)
             IN  agents' = [i \in 1..Len(agents) |->
                               RawTtlResolved(agents[i],
                                              FirstRow(FoundConfigValues(agents[i].iri, STR_allow_delegation, ttl_kv)),
                                              FirstRow(FoundConfigValues(agents[i].iri, STR_verbose, ttl_kv)))]
      [] pc = "workflow" /\ rows # {} ->
             LET row == FirstRow(NextWorkflowRows)
             IN  IF row.stepOrder.kind = "text" THEN pc' = "raised" ELSE rows' = rows \ {row}
      [] OTHER ->
             rows # {} /\ pc' = pc => rows' = rows \ {FirstRow(rows)}

OTHER_DOC == LinkDoc({AGENT1}, {TOOL1}, {LM1}, {<<AGENT1, LM1>>}, {AGENT1}, {RES1}, {TEAM1})

ConflictingProcess == << <<STR_process, <<"h","i","e","r","a","r","c","h","i","c","a","l">>>>, <<STR_process, <<"s","e","q","u","e","n","t","i","a","l">>>> >>

TwiceDocs ==
    LinkDocs
    \cup WorkflowDocs
    \cup {OrderDoc(labels, produced, required, [t \in OrderTasks |-> {}]) :
              labels \in AtMostOne({<<"b">>}),
              produced \in [OrderTasks -> AtMostOne({RES1})],
              required \in [OrderTasks -> AtMostOne({RES1})]}
    \cup {TeamDoc(ps, labels1, {}, labels2, descs, comments) :
              ps \in {<< >>, ConflictingProcess},
              labels1 \in AtMostOne({<<"S","e","q","u","e","n","t","i","a","l"," ","f","l","o","w">>}), labels2 \in AtMostOne({STR_hierarchical}),
              descs \in AtMostOne({<<"S","e","q","u","e","n","t","i","a","l"," ","t","e","a","m">>}), comments \in AtMostOne({STR_hierarchical})}

InitTwice ==
    /\ \E d \in TwiceDocs :
           \/ doc = d /\ previous = NoProject
           \/ doc = OTHER_DOC /\ previous = [kind |-> "before", doc |-> d]
    /\ order \in {"ascending", "descending"}
    /\ pc = "team_primary"
    /\ team = NewTeam
    /\ rows = {}
    /\ bools = {}
    /\ language_models = << >>
    /\ tools = << >>
    /\ agents = << >>
    /\ tasks = << >>
    /\ resource_to_producer = << >>
    /\ workflow_steps = << >>
    /\ task_list = << >>
    /\ input_variables = << >>
    /\ env_vars = << >>
    /\ arg = NoCall
    /\ ret = NoCall
    /\ loader = NoLoad
    /\ batch = NoBatch

\* extract_crew_project is called again: on the document to come after the
\* run on the other document, on the same document after its first run
NextRun ==
    /\ pc = "project_done"
    /\ previous.kind \in {"none", "before"}
    /\ IF previous.kind = "before"
       THEN doc' = previous.doc /\ previous' = NoProject
       ELSE previous' = CrewProject /\ UNCHANGED doc
    /\ pc' = "team_primary"
    /\ team' = NewTeam
    /\ rows' = {}
    /\ bools' = FreshCollections.bools
    /\ language_models' = FreshCollections.language_models
    /\ tools' = FreshCollections.tools
    /\ agents' = FreshCollections.agents
    /\ tasks' = FreshCollections.tasks
    /\ resource_to_producer' = FreshCollections.resource_to_producer
    /\ workflow_steps' = FreshCollections.workflow_steps
    /\ task_list' = FreshCollections.task_list
    /\ input_variables' = FreshCollections.input_variables
    /\ env_vars' = FreshCollections.env_vars
    /\ UNCHANGED <<arg, ret, loader, batch, order>>

NextTwice ==
    \/ NextFull /\ InQueryOrder
    \/ NextRun

SpecTwice == InitTwice /\ [][NextTwice]_vars

LateOrders == {IntLiteral(1), IntLiteral(DEFAULT_STEP_ORDER), IntLiteral(DEFAULT_STEP_ORDER + 1)}

LateDocs ==
    {OrderDoc(labels, [t \in OrderTasks |-> {}], [t \in OrderTasks |-> {}], orders) :
         labels \in AtMostOne({<<"b">>}),
         orders \in [OrderTasks -> AtMostOne(LateOrders)]}

InitReorder ==
    /\ doc \in WorkflowDocs \cup LateDocs
    /\ pc = "tasks_primary"
    /\ rows = TASKS_QUERY
    /\ bools = {}
    /\ language_models = << >>
    /\ tools = << >>
    /\ agents = << >>
    /\ tasks = << >>
    /\ resource_to_producer = << >>
    /\ workflow_steps = << >>
    /\ task_list = << >>
    /\ input_variables = << >>
    /\ arg = NoCall
    /\ ret = NoCall
    /\ IdleExtra

SpecReorder == InitReorder /\ [][NextOrder]_vars

(***************************************************************************)
(* C17.  The tasks without a workflow step.                                *)
(***************************************************************************)
Referenced(iri) == StepsOf(iri) # {}

\* the position of the task in a list of task records
PositionOf(list, iri) == CHOOSE i \in 1..Len(list) : list[i].iri = iri

\* the order of the step of a referenced task: the explicit one, or the one
\* the step got when it was collected
StepOrderOf(iri) ==
    LET s == CHOOSE s \in StepsOf(iri) : TRUE
    IN  IF s.stepOrder.kind = "int" THEN s.stepOrder.value
        ELSE (CHOOSE st \in {workflow_steps[p] : p \in 1..Len(workflow_steps)} :
                  st.step_type = AfterLast(s.stepType, "#")).step_order

\* the two tasks are to keep their extraction order
KeepOrder(a, b) ==
    \/ ~Referenced(a) /\ ~Referenced(b)
    \/ Referenced(a) /\ Referenced(b) /\ StepOrderOf(a) = StepOrderOf(b)

\* C17: when workflow steps exist, every task no step references comes
\* after every task a step references, whatever the step orders are, and
\* tasks of equal order and tasks without a step keep their extraction
\* order; with no workflow steps the task order is the extraction order.
C17_UnlistedTasksLast ==
    pc = "reordered" =>
        IF workflow_steps = << >> THEN task_list = tasks
        ELSE /\ \A i, j \in 1..Len(task_list) :
                    Referenced(task_list[i].iri) /\ ~Referenced(task_list[j].iri) => i < j
             /\ \A i, j \in 1..Len(tasks) :
                    i < j /\ KeepOrder(tasks[i].iri, tasks[j].iri) =>
                        PositionOf(task_list, tasks[i].iri) < PositionOf(task_list, tasks[j].iri)

\* the same for the documents whose tasks have distinct identifiers and
\* whose step orders are below the order of the tasks without a step
DistinctTaskNames == \A i, j \in 1..Len(tasks) : tasks[i].var_name = tasks[j].var_name => i = j

C17_SmallOrdersDistinctNames ==
    (DistinctTaskNames /\ \A s \in doc.steps : s.stepOrder.kind = "int" => s.stepOrder.value < DEFAULT_STEP_ORDER)
        => C17_UnlistedTasksLast

(***************************************************************************)
(* C20.  The steps without an explicit order.                              *)
(***************************************************************************)
\* the step row of the document behind a collected step (the documents give
\* every task a step type of its own)
RowOfStep(step) == CHOOSE s \in doc.steps : AfterLast(s.stepType, "#") = step.step_type

HasExplicitOrder(step) == RowOfStep(step).stepOrder.kind = "int"

\* the first half of C20: while the steps are collected, a step without an
\* explicit order holds the number of steps collected before it plus one
DefaultOrderIsCountPlusOne ==
    pc = "workflow" =>
        \A p \in 1..Len(workflow_steps) : ~HasExplicitOrder(workflow_steps[p]) => workflow_steps[p].step_order = p

\* C20: a step with no explicit order gets the number of steps collected so
\* far plus one, and in the sorted step list no step without an explicit
\* order comes before a step that has one.
C20_DefaultOrderGoesLast ==
    /\ DefaultOrderIsCountPlusOne
    /\ pc = "workflow_done" =>
           \A p, q \in 1..Len(workflow_steps) :
               ~HasExplicitOrder(workflow_steps[p]) /\ HasExplicitOrder(workflow_steps[q]) => q < p

(***************************************************************************)
(* C21.  Role, goal and backstory from a Config node with several pairs.   *)
(***************************************************************************)
\* the field is a value the document pairs with the key on a Config node of
\* the agent, and empty when the document pairs none with it
FilledFromPair(iri, key, field) ==
    LET paired == UNION {PairedValues(c, key) : c \in LinkedConfigs(iri)}
    IN  IF paired = {} THEN field = << >> ELSE field \in {StripStr(v) : v \in paired}

\* the Config nodes of the agent carry pairs of more than one key
SeveralKeys(iri) == \E c \in LinkedConfigs(iri) : Cardinality(ConfigKeys(c)) > 1

\* the Config step has read its last row and the next step has not begun
ConfigStepOver == pc = "agents_backstory" /\ rows = AGENT_BACKSTORY_FROM_PROMPT_QUERY

\* C21: for an agent with no direct role and no Goal node whose Config node
\* carries several key/value pairs, the role, goal and backstory the Config
\* step fills are the values paired with those keys in the document, for
\* every order of the rows of the config query.
C21_ConfigFieldsArePaired ==
    ConfigStepOver =>
        \A i \in 1..Len(agents) :
            (/\ Objects(doc.agentRole, agents[i].iri) = {}
             /\ Objects(doc.hasAgentGoal, agents[i].iri) = {}
             /\ SeveralKeys(agents[i].iri)) =>
                /\ FilledFromPair(agents[i].iri, STR_role, agents[i].role)
                /\ FilledFromPair(agents[i].iri, STR_goal, agents[i].goal)
                /\ FilledFromPair(agents[i].iri, STR_backstory, agents[i].backstory)

\* what does hold: with pairs of one key only, the field is a value of that key
C21_SingleKeyConfigIsPaired ==
    ConfigStepOver =>
        \A i \in 1..Len(agents) :
            (/\ Objects(doc.agentRole, agents[i].iri) = {}
             /\ Objects(doc.hasAgentGoal, agents[i].iri) = {}
             /\ ~SeveralKeys(agents[i].iri)) =>
                /\ FilledFromPair(agents[i].iri, STR_role, agents[i].role)
                /\ FilledFromPair(agents[i].iri, STR_goal, agents[i].goal)
                /\ FilledFromPair(agents[i].iri, STR_backstory, agents[i].backstory)

(***************************************************************************)
(* SpecTools: _extract_tools on the documents of two tools o#Search and    *)
(* o#Scrape and two Config nodes, the first with up to two pairs, each     *)
(* node linked to a tool or to none.                                       *)
(***************************************************************************)
TOOL2 == <<"o","#","S","c","r","a","p","e">>

STR_timeout == <<"t","i","m","e","o","u","t">>

STR_mode == <<"m","o","d","e">>

\* the pairs a tool Config node may carry
ToolPairs == { <<STR_timeout, <<"3","0">>>>, <<STR_mode, <<"f","a","s","t">>>>, <<STR_mode, <<"s","l","o","w">>>> }

\* the pair lists of the first Config node: none, one pair, two pairs of two
\* keys, two pairs of one key, one pair written twice
ToolPairLists1 ==
    { << >>, << <<STR_timeout, <<"3","0">>>> >>,
      << <<STR_timeout, <<"3","0">>>>, <<STR_mode, <<"f","a","s","t">>>> >>,
      << <<STR_mode, <<"f","a","s","t">>>>, <<STR_mode, <<"s","l","o","w">>>> >>,
      << <<STR_mode, <<"f","a","s","t">>>>, <<STR_mode, <<"f","a","s","t">>>> >> }

\* the pair lists of the second Config node
ToolPairLists2 == { << >>, << <<STR_timeout, <<"3","0">>>> >>, << <<STR_mode, <<"s","l","o","w">>>> >> }

ToolConfigLinks == { <<TOOL1, CFG1>>, <<TOOL1, CFG2>>, <<TOOL2, CFG2>> }

ToolDoc(labels, links, ps1, ps2) ==
    [EmptyDoc EXCEPT
        !.toolNodes = {TOOL1, TOOL2},
        !.label = {<<TOOL1, l>> : l \in labels},
        !.hasToolConfig = links,
        !.raw_ttl = ConfigText(CFG1, ps1) \o ConfigText(CFG2, ps2)]

ToolDocs ==
    {ToolDoc(labels, links, ps1, ps2) :
         labels \in AtMostOne({<<"W","e","b"," ","S","e","a","r","c","h">>}), links \in SUBSET ToolConfigLinks,
         ps1 \in ToolPairLists1, ps2 \in ToolPairLists2}

InitTools ==
    /\ doc \in ToolDocs
    /\ pc = "tools_primary"
    /\ rows = TOOLS_QUERY
    /\ bools = {}
    /\ language_models = << >>
    /\ tools = << >>
    /\ agents = << >>
    /\ tasks = << >>
    /\ resource_to_producer = << >>
    /\ workflow_steps = << >>
    /\ task_list = << >>
    /\ input_variables = << >>
    /\ arg = NoCall
    /\ ret = NoCall
    /\ IdleExtra

NextTools ==
    \/ ExtractToolsPrimary
    \/ ExtractToolsConfigs

SpecTools == InitTools /\ [][NextTools]_vars

(***************************************************************************)
(* C22.  The configuration list of a tool.                                 *)
(***************************************************************************)
\* the Config nodes linked to the tool
ToolConfigsOf(iri) == Objects(doc.hasToolConfig, iri)

\* the Config nodes of the tool on which the document pairs key k with value v
NodesPairing(iri, k, v) == {c \in ToolConfigsOf(iri) : v \in PairedValues(c, k)}

\* how often the configuration list holds the pair
TimesListed(configs, k, v) == Cardinality({j \in 1..Len(configs) : configs[j].key = k /\ configs[j].value = v})

\* the configuration list holds each pair of each Config node of the tool once, and nothing else
HoldsExactlyThePairs(tool) ==
    \A k \in {p[1] : p \in ToolPairs}, v \in {p[2] : p \in ToolPairs} :
        TimesListed(tool.configs, k, v) = Cardinality(NodesPairing(tool.iri, k, v))

\* C22: a tool's configuration list holds exactly the (key, value) pairs of
\* its Config entries, each pair once and each key with its own value, also
\* when one Config node carries several pairs.
C22_ToolConfigsArePairs ==
    pc = "tools_done" => \A i \in 1..Len(tools) : HoldsExactlyThePairs(tools[i])

\* what does hold: the list is right for a tool whose Config nodes carry one key and one value each
C22_SinglePairConfigs ==
    pc = "tools_done" =>
        \A i \in 1..Len(tools) :
            (\A c \in ToolConfigsOf(tools[i].iri) : Cardinality(ConfigKeys(c)) <= 1 /\ Cardinality(ConfigValues(c)) <= 1)
                => HoldsExactlyThePairs(tools[i])

(***************************************************************************)
(* C23.  The Config override of a task description.                        *)
(***************************************************************************)
\* the override step has read its last row and the next step has not begun
ConfigDescriptionStepOver == pc = "tasks_prompt" /\ rows = TASK_PROMPT_QUERY

\* the descriptions the primary step reads for the task
PrimaryDescriptions(iri) == {StripStr(d) : d \in Opt(Objects(doc.description, iri))}

\* the values the document pairs with the key "description" on a Config node of the task
PairedDescriptions(iri) ==
    {StripStr(v) : v \in UNION {PairedValues(c, STR_description) : c \in Objects(doc.hasAgentConfig, iri)}}

\* the description is the primary one, or a paired "description" value that is strictly longer
OverriddenByLongerPairOnly(task) ==
    \/ task.description \in PrimaryDescriptions(task.iri)
    \/ /\ task.description \in PairedDescriptions(task.iri)
       /\ \E d \in PrimaryDescriptions(task.iri) : Len(task.description) > Len(d)

\* C23: the Config override step replaces a task's description only by a
\* value that is paired with the config key "description" on that task's
\* Config and is strictly longer than the current description; a value of
\* equal or shorter length, or a value paired with another key, never
\* replaces it.
C23_OverrideByLongerDescriptionOnly ==
    ConfigDescriptionStepOver => \A i \in 1..Len(tasks) : OverriddenByLongerPairOnly(tasks[i])

\* what does hold: the rule on a task whose Config nodes carry no other key than "description"
C23_DescriptionOnlyConfigs ==
    ConfigDescriptionStepOver =>
        \A i \in 1..Len(tasks) :
            (\A c \in Objects(doc.hasAgentConfig, tasks[i].iri) : ConfigKeys(c) \subseteq {STR_description})
                => OverriddenByLongerPairOnly(tasks[i])

\* and the length rule on every document: a step of the override loop changes
\* a description only to a strictly longer one
C23_OnlyLongerReplaces ==
    [][pc = "tasks_config_description" =>
           \A i \in 1..Len(tasks) :
               tasks'[i].description # tasks[i].description =>
                   Len(tasks'[i].description) > Len(tasks[i].description)]_vars

(***************************************************************************)
(* C24.  The boolean tokens of the raw-text step.                          *)
(***************************************************************************)
\* the raw-text step is over and the text-pattern step has not begun
RawTtlStepOver == pc = "agents_text" /\ rows = AGENT_TEXT_FIELDS_QUERY

\* the config-key step left the flag unknown: its query yields no value it
\* reads, or values it reads both ways
ConfigKeyStepSilent(iri, key) ==
    (\E v \in QueryValues(iri, key) : ReadsAsTrue(key, v)) <=> (\E v \in QueryValues(iri, key) : ReadsAsFalse(key, v))

\* the values the raw text pairs with the key on a Config node of the agent, lowercased
RecoveredValues(iri, key) == {LowerStr(v) : v \in UNION {PairedValues(c, key) : c \in LinkedConfigs(iri)}}

\* true only for a recovered true/1/yes
TrueOnlyForTrueToken(iri, key, flag) == flag = "True" => RecoveredValues(iri, key) \cap TrueWords # {}

\* false only for a recovered false/0/no/none
FalseOnlyForFalseToken(iri, key, flag) == flag = "False" => RecoveredValues(iri, key) \cap FalseWords # {}

\* C24: in the raw-text disambiguation step allow_delegation and verbose are
\* set to true only when the recovered value is one of true/1/yes and to
\* false only when it is one of false/0/no/none (case-insensitive); any other
\* recovered value leaves the flag unknown and is never coerced to false or
\* to true.
C24_RawTextReadsBooleanTokensOnly ==
    RawTtlStepOver =>
        \A i \in 1..Len(agents) :
            /\ ConfigKeyStepSilent(agents[i].iri, STR_allow_delegation) =>
                   /\ TrueOnlyForTrueToken(agents[i].iri, STR_allow_delegation, agents[i].allow_delegation)
                   /\ FalseOnlyForFalseToken(agents[i].iri, STR_allow_delegation, agents[i].allow_delegation)
            /\ ConfigKeyStepSilent(agents[i].iri, STR_verbose) =>
                   /\ TrueOnlyForTrueToken(agents[i].iri, STR_verbose, agents[i].verbose)
                   /\ FalseOnlyForFalseToken(agents[i].iri, STR_verbose, agents[i].verbose)

\* what does hold: allow_delegation is true only for a true token, verbose is
\* false only for a false token, and a flag with no recovered value stays unknown
C24_RecognizedHalves ==
    RawTtlStepOver =>
        \A i \in 1..Len(agents) :
            /\ ConfigKeyStepSilent(agents[i].iri, STR_allow_delegation) =>
                   /\ TrueOnlyForTrueToken(agents[i].iri, STR_allow_delegation, agents[i].allow_delegation)
                   /\ RecoveredValues(agents[i].iri, STR_allow_delegation) = {} => agents[i].allow_delegation = None
            /\ ConfigKeyStepSilent(agents[i].iri, STR_verbose) =>
                   /\ FalseOnlyForFalseToken(agents[i].iri, STR_verbose, agents[i].verbose)
                   /\ RecoveredValues(agents[i].iri, STR_verbose) = {} => agents[i].verbose = None

(***************************************************************************)
(* C25.  Both words among the scanned texts.                               *)
(***************************************************************************)
\* strategy 1 detected nothing: no value of the rows of the process query names a process
ProcessConfigSilent == Signals({r.configValue : r \in TEAM_PROCESS_QUERY}) = {}

BothWords == {HIERARCHICAL, SEQUENTIAL}

\* the WorkflowPattern scan ran and its texts hold both words
PatternScanSawBoth == ProcessConfigSilent /\ WorkflowPatternSignals = BothWords

\* the Team description/comment scan ran and its texts hold both words
TeamScanSawBoth == ProcessConfigSilent /\ WorkflowPatternSignals = {} /\ TeamTextSignals = BothWords

\* C25: in the WorkflowPattern text scan and in the Team description/comment
\* scan alike, when both "hierarchical" and "sequential" appear among the
\* scanned texts the result is HIERARCHICAL, whatever the order of the nodes
\* and fields in which the two words appear.
C25_HierarchicalWinsInBothScans ==
    pc = "team_done" => (PatternScanSawBoth \/ TeamScanSawBoth => team.process = HIERARCHICAL)

\* what does hold: the rule in the WorkflowPattern scan
C25_HierarchicalWinsInPatternScan ==
    pc = "team_done" => (PatternScanSawBoth => team.process = HIERARCHICAL)

\* the WorkflowPattern scan saw "sequential" on one node and "hierarchical" on
\* another and the result is HIERARCHICAL
C25_PatternScanReached ==
    /\ pc = "team_done"
    /\ PatternScanSawBoth
    /\ InferProcessFromText(CHOOSE l \in Objects(doc.label, WP1) \cup {<< >>} : TRUE) # HIERARCHICAL
    /\ Objects(doc.title, WP1) = {}
    /\ team.process = HIERARCHICAL

(***************************************************************************)
(* C26.  Several producers of one resource.                                *)
(***************************************************************************)
\* the extracted tasks the document records as producers of resource r
ProducersOf(r) == {x \in 1..Len(tasks) : <<tasks[x].iri, r>> \in doc.producedResource}

\* the dependency of task y on the identifier n is owed to another resource than r
OwedToOtherResource(y, n, r) ==
    \E r2 \in DocResources \ {r} : Requires(y, r2) /\ r2 \in DOMAIN resource_to_producer /\ resource_to_producer[r2] = n

\* task y, which requires r, depends on the kept producer k of r and on no other producer of r
DependsOnKeptOnly(y, r, k) ==
    /\ r \in DOMAIN resource_to_producer
    /\ resource_to_producer[r] = tasks[k].var_name
    /\ k # y => InSeq(tasks[k].var_name, tasks[y].context_task_var_names)
    /\ \A x \in ProducersOf(r) \ {k} :
           InSeq(tasks[x].var_name, tasks[y].context_task_var_names) => OwedToOtherResource(y, tasks[x].var_name, r)

\* C26: when several tasks are recorded as producing the same resource, the
\* producer kept for that resource is the one encountered last in the
\* traversal, and a task that requires the resource depends on that producer
\* only, not on the earlier ones.
C26_LastProducerOnly ==
    pc = "context_done" =>
        \A r \in DocResources, y \in 1..Len(tasks) :
            Cardinality(ProducersOf(r)) > 1 /\ Requires(y, r) =>
                \E k \in ProducersOf(r) : DependsOnKeptOnly(y, r, k)

\* what does hold: the same on the documents whose tasks have distinct identifiers
C26_LastProducerOnlyDistinctNames ==
    pc = "context_done" /\ (\A x \in 1..Len(tasks), y \in 1..Len(tasks) : x # y => tasks[x].var_name # tasks[y].var_name) =>
        \A r \in DocResources, y \in 1..Len(tasks) :
            Cardinality(ProducersOf(r)) > 1 /\ Requires(y, r) =>
                \E k \in ProducersOf(r) : DependsOnKeptOnly(y, r, k)

\* and on every document: each producer row read replaces the producer kept
\* for its resource, so the one kept at the end is the one read last
C26_LastEncounteredIsKept ==
    [][pc = "context_produces" /\ rows # {} =>
           \E row \in rows :
               /\ rows' = rows \ {row}
               /\ HasIri(tasks, row.task)
               /\ row.resource \in DOMAIN resource_to_producer'
               /\ resource_to_producer'[row.resource] = tasks[IndexOfIri(tasks, row.task)].var_name
               /\ \A r \in DOMAIN resource_to_producer \ {row.resource} :
                      resource_to_producer'[r] = resource_to_producer[r]]_vars

\* two tasks of distinct identifiers produce a resource a third task requires,
\* and the third task depends on one of them only
C26_SeveralProducersReached ==
    /\ pc = "context_done"
    /\ \A x \in 1..Len(tasks), y \in 1..Len(tasks) : x # y => tasks[x].var_name # tasks[y].var_name
    /\ \E r \in DocResources, y \in 1..Len(tasks) :
           /\ Cardinality(ProducersOf(r) \ {y}) > 1
           /\ Requires(y, r)
           /\ Len(tasks[y].context_task_var_names) = 1

(***************************************************************************)
(* SpecEnvExample: the env files of generate_project for two projects that *)
(* differ in nothing but the values of their env vars.  A project has at   *)
(* most one agent, with no language model or one of a provider the         *)
(* extractor infers, at most one tool, and up to two env vars of distinct  *)
(* keys.                                                                   *)
(***************************************************************************)
InferredProviders == {<< >>, STR_openai, STR_ollama}

EnvExampleClassNames == {<<"S","e","r","p","e","r","D","e","v","T","o","o","l">>, <<"s","e","r","p","e","r","d","e","v","t","o","o","l">>, <<"s","e","a","r","c","h">>}

SurfacedKeys == {OPENAI_API_KEY, <<"S","E","R","P","E","R","_","A","P","I","_","K","E","Y">>, <<"a","p","i","_","k","e","y">>}

SecretValues == {<<"s","k","-","1">>, <<"s","k","-","2">>}

\* the lists of env vars the extractor can return: no key twice
SurfacedEnvVars ==
    {cfgs \in SeqsUpTo([key : SurfacedKeys, value : SecretValues], 2) :
         \A i \in 1..Len(cfgs), j \in 1..Len(cfgs) : i # j => cfgs[i].key # cfgs[j].key}

\* the agent lists: no agent, an agent without a language model, an agent with the language model
AgentLists(lm) ==
    { << >>, << [iri |-> AGENT1, var_name |-> <<"d","e","v">>, llm |-> << >>] >>,
      << [iri |-> AGENT1, var_name |-> <<"d","e","v">>, llm |-> <<lm>>] >> }

RenderedProject(agentList, provider, toolList, cfgs) ==
    [kind |-> "project",
     agents |-> agentList,
     language_models |-> << [iri |-> <<"o","#","L","M">>, provider |-> provider] >>,
     tools |-> toolList,
     env_vars |-> cfgs]

RenderedProjects ==
    {RenderedProject(agentList, provider, toolList, cfgs) :
         agentList \in AgentLists(<<"o","#","L","M">>), provider \in InferredProviders,
         toolList \in {<< >>} \cup {<< [iri |-> TOOL1, class_name |-> c] >> : c \in EnvExampleClassNames},
         cfgs \in SurfacedEnvVars}

\* the two projects differ only in the values of their env vars
DifferOnlyInEnvValues(p, q) ==
    /\ [p EXCEPT !.env_vars = << >>] = [q EXCEPT !.env_vars = << >>]
    /\ Len(p.env_vars) = Len(q.env_vars)
    /\ \A i \in 1..Len(p.env_vars) : p.env_vars[i].key = q.env_vars[i].key

InitEnvExample ==
    /\ arg \in {pq \in RenderedProjects \X RenderedProjects : DifferOnlyInEnvValues(pq[1], pq[2])}
    /\ ret = <<NewRendering, NewRendering>>
    /\ pc = "write_env"
    /\ IdlePipeline
    /\ IdleExtra

NextEnvExample ==
    \/ WriteEnv
    \/ EnvExampleDefault
    \/ EnvExampleProviders
    \/ EnvExampleTools
    \/ EnvExampleMerge
    \/ EnvExampleBuild

SpecEnvExample == InitEnvExample /\ [][NextEnvExample]_vars

(***************************************************************************)
(* C27.  No value of the graph in .env.example.                            *)
(***************************************************************************)
\* C27: the generated .env.example contains placeholder values only: two
\* projects that differ only in the values of their graph-surfaced env vars
\* produce the same .env.example, so no secret value from the graph reaches
\* that file.
C27_EnvExampleHidesValues ==
    pc = "env_example_written" => ret[1].env_example = ret[2].env_example

\* what does hold: every entry whose key the graph did not surface is a placeholder
C27_OtherEntriesArePlaceholders ==
    pc \in {"env_example_build", "env_example_written"} =>
        \A r \in DOMAIN ret : \A i \in 1..Len(ret[r].entries) :
            LET e == ret[r].entries[i]
            IN  (\A j \in 1..Len(arg[r].env_vars) : arg[r].env_vars[j].key # e.key) => e.value = Placeholder(e.key)

\* and the two files are the same up to the entries of the surfaced keys
C27_SameKeysInBothFiles ==
    pc \in {"env_example_build", "env_example_written"} =>
        /\ Len(ret[1].entries) = Len(ret[2].entries)
        /\ \A i \in 1..Len(ret[1].entries) : ret[1].entries[i].key = ret[2].entries[i].key

(***************************************************************************)
(* C28.  The code identifiers of the records of one project.               *)
(***************************************************************************)
\* no two records of the list have the same code identifier
DistinctIdentifiers(records) ==
    \A i \in 1..Len(records), j \in 1..Len(records) : i # j => records[i].var_name # records[j].var_name

\* C28: distinct Agent records of one project have distinct code
\* identifiers, and so have distinct Task records and distinct Tool records,
\* so that agents.yaml and tasks.yaml hold one entry per record and an
\* assignment or dependency identifier names exactly one record.
C28_DistinctIdentifiers ==
    /\ DistinctIdentifiers(agents)
    /\ DistinctIdentifiers(tasks)
    /\ DistinctIdentifiers(tools)

\* what does hold: no two records of a list stand for the same individual
C28_OneRecordPerIndividual ==
    \A records \in {agents, tasks, tools} :
        \A i \in 1..Len(records), j \in 1..Len(records) : i # j => records[i].iri # records[j].iri

\* and the identifiers are distinct when no task carries a label
C28_DistinctWithoutLabels ==
    doc.label = {} => DistinctIdentifiers(tasks)

(***************************************************************************)
(* SpecAsIs: the as-is generators name an agent, a task or a tool whose id *)
(* is any short string over the alphabet of SpecSafeVar, or one of four    *)
(* IRIs.                                                                   *)
(***************************************************************************)
AsIsIds == SafeVarInputs \cup {<<"o","#","D","e","v">>, <<"o","#","C","l","a","s","s">>, <<"h","t","t","p",":","/","/","x",".","o","r","g","/","D","e","v">>, <<"o","#","S","e","n","i","o","r","-","E","n","g","i","n","e","e","r">>}

AsIsSites ==
    {[generator |-> "crewai", entity |-> e] : e \in {"agent", "tool", "task"}}
        \cup {[generator |-> "autogen", entity |-> "agent"]}

InitAsIs ==
    /\ pc = "generate"
    /\ arg \in {[generator |-> s.generator, entity |-> s.entity, id |-> id] : s \in AsIsSites, id \in AsIsIds}
    /\ ret = NoCall
    /\ IdleExtra
    /\ IdlePipeline

NextAsIs ==
    \/ GenerateCrewaiAgent
    \/ GenerateCrewaiTool
    \/ GenerateCrewaiTask
    \/ GenerateAutogenAgent

SpecAsIs == InitAsIs /\ [][NextAsIs]_vars

(***************************************************************************)
(* C29.  The emitted names as Python identifiers.                          *)
(***************************************************************************)
\* the lowercase keywords of Python
PythonKeywords ==
    {<<"a","n","d">>, <<"a","s">>, <<"a","s","s","e","r","t">>, <<"a","s","y","n","c">>, <<"a","w","a","i","t">>, <<"b","r","e","a","k">>, <<"c","l","a","s","s">>, <<"c","o","n","t","i","n","u","e">>, <<"d","e","f">>, <<"d","e","l">>, <<"e","l","i","f">>,
     <<"e","l","s","e">>, <<"e","x","c","e","p","t">>, <<"f","i","n","a","l","l","y">>, <<"f","o","r">>, <<"f","r","o","m">>, <<"g","l","o","b","a","l">>, <<"i","f">>, <<"i","m","p","o","r","t">>, <<"i","n">>, <<"i","s">>, <<"l","a","m","b","d","a">>, <<"n","o","n","l","o","c","a","l">>,
     <<"n","o","t">>, <<"o","r">>, <<"p","a","s","s">>, <<"r","a","i","s","e">>, <<"r","e","t","u","r","n">>, <<"t","r","y">>, <<"w","h","i","l","e">>, <<"w","i","t","h">>, <<"y","i","e","l","d">>}

\* a name the Python parser reads as one identifier (ASCII)
IsPythonIdentifier(s) ==
    /\ s # << >>
    /\ s[1] \in Upper \cup Lower \cup {"_"}
    /\ \A i \in 2..Len(s) : s[i] \in AlNum \cup {"_"}
    /\ s \notin PythonKeywords

\* C29: every variable name that the as-is CrewAI and AutoGen generators
\* emit for an agent, task or tool is a valid Python identifier, for every
\* entity IRI, so that each generated script passes the syntax check.
C29_EmittedNamesAreIdentifiers ==
    pc = "generated" => IsPythonIdentifier(ret)

\* what does hold: the name is an identifier when the part of the id after
\* the last "#" is one and is no keyword in lower case
C29_IdentifierLocalNames ==
    pc = "generated" /\ IsPythonIdentifier(AfterLast(arg.id, "#")) /\ LowerStr(AfterLast(arg.id, "#")) \notin PythonKeywords
        => IsPythonIdentifier(ret)

\* the name of o#Dev, an identifier, was emitted by each generator
C29_IdentifierReached ==
    pc = "generated" /\ arg.id = <<"o","#","D","e","v">> /\ ret = <<"d","e","v">>

(***************************************************************************)
(* SpecChain: the AutoGen generator on up to MaxChainAgents agents, each   *)
(* with up to MaxLinks interactsWith links to the ids of ChainIds, and no  *)
(* workflow steps.  The objects of one agent are distinct (a graph holds a *)
(* triple once), the agents are distinct individuals.  SpecChainLive adds  *)
(* that the generator keeps running.                                       *)
(***************************************************************************)
ChainIds == {<<"o","#","A">>, <<"o","#","B">>, <<"o","#","C">>}

DistinctSeqs(S, n) == {s \in SeqsUpTo(S, n) : \A i, j \in 1..Len(s) : i # j => s[i] # s[j]}

ChainIdLists == DistinctSeqs(ChainIds, MaxChainAgents)

ChainAgents(ids) ==
    {ags \in [1..Len(ids) -> [id : ChainIds, interacts_with : DistinctSeqs(ChainIds, MaxLinks)]] :
        \A i \in 1..Len(ids) : ags[i].id = ids[i]}

InitChain ==
    /\ pc = "chain_agents"
    /\ arg \in UNION {ChainAgents(ids) : ids \in ChainIdLists}
    /\ ret = NoCall
    /\ IdleExtra
    /\ IdlePipeline

NextChain ==
    \/ GenerateAgents
    \/ StartChain
    \/ NoChain
    \/ FollowChain
    \/ EndChain

SpecChain == InitChain /\ [][NextChain]_vars

SpecChainLive == SpecChain /\ WF_vars(NextChain)

(***************************************************************************)
(* C30.  The chain ends, and hands over to an agent once at most.          *)
(***************************************************************************)
\* the hand-overs: the chats after the manager's opening one
HandOvers == IF pc \in {"chain_loop", "chain_done"} /\ DOMAIN ret.agent_interactions # {}
             THEN Drop(ret.chat_flow, 1) ELSE << >>

NoTargetTwice ==
    /\ \A i, j \in 1..Len(HandOvers) : i # j => HandOvers[i].target # HandOvers[j].target
    /\ \A i \in 1..Len(HandOvers) : HandOvers[i].target # ret.chat_flow[1].target

\* C30: in the AutoGen generator, following the interactsWith chain from
\* the first agent terminates for every interaction graph, including
\* cycles and self-links, and no agent is made the target of a hand-over
\* more than once.
C30_ChainEndsAndTargetsOnce ==
    /\ <>(pc = "chain_done")
    /\ []NoTargetTwice

\* a full cycle a -> b -> c -> a with a self-link on a was followed to its
\* end: two hand-overs, the links back to visited agents skipped
C30_CycleFollowed ==
    /\ pc = "chain_done"
    /\ Len(arg) = 3
    /\ \A i \in 1..3 : InSeq(arg[i].id, arg[1 + (i % 3)].interacts_with)
    /\ InSeq(arg[1].id, arg[1].interacts_with)
    /\ Len(ret.chat_flow) = 3

====
